---- MODULE Spec2Model ----
(***************************************************************************)
(* A model of RGSPL, an interpreter for a subset of APL: the array model   *)
(* (arraymodel.py), the primitive functions (functions.py) and the         *)
(* tokenizer, parser and evaluator (rgspl.py).                             *)
(*                                                                         *)
(* Python values are records tagged by the field k:                        *)
(*   [k |-> "int", v |-> n]                  a Python int                  *)
(*   [k |-> "list", items |-> <<...>>]       a Python list                 *)
(*   [k |-> "arr", shape |-> <<...>>, data |-> d]   an APLArray instance   *)
(*   [k |-> "none"]                          None                          *)
(*   [k |-> "err", kind |-> "TypeError"]     a raised exception            *)
(* The data attribute of an APLArray is whatever the constructor was       *)
(* given: a list in a well-formed array, but any Python value in general.  *)
(***************************************************************************)
EXTENDS Integers, Sequences, FiniteSets, TLC

VARIABLES
    pc,         \* position of the run: which step comes next
    fn,         \* name of the primitive applied last ("" before any call)
    alpha,      \* left argument of the primitive call (None when monadic)
    omega,      \* right argument of the primitive call
    alpha0,     \* the left argument the run started with
    omega0,     \* the right argument the run started with
    calls,      \* the primitives applied so far, in order
    result,     \* value returned (or exception raised) by the last step
    code,       \* source text given to the Tokenizer, a sequence of characters
    tokens,     \* Tokenizer.tokenize() result
    tree,       \* Parser.parse() result
    var_lookup  \* Interpreter.var_lookup, the Environment

vars == <<pc, fn, alpha, omega, alpha0, omega0, calls, result, code, tokens, tree, var_lookup>>

----------------------------------------------------------------------------
(* Python values *)

None == [k |-> "none"]

PyInt(n) == [k |-> "int", v |-> n]

PyList(xs) == [k |-> "list", items |-> xs]

Raise(kind) == [k |-> "err", kind |-> kind]

IsErr(x) == x.k = "err"

IsList(x) == x.k = "list"

IsInt(x) == x.k = "int"

\* isinstance(x, APLArray)
IsAPLArray(x) == x.k = "arr"

DigitChars == <<"0", "1", "2", "3", "4", "5", "6", "7", "8", "9">>

RECURSIVE int(_)
\* Python's int() of a text of decimal digits
int(text) ==
    IF Len(text) = 0 THEN 0
    ELSE 10 * int(SubSeq(text, 1, Len(text) - 1))
            + (CHOOSE i \in 1..Len(DigitChars) : DigitChars[i] = text[Len(text)]) - 1

\* a Python float written int_.dec_ with a decimal part that is not zero:
\* its sign, its whole part and its decimals without the trailing zeros
PyFloat(negative, whole, decimals) ==
    [k |-> "float", negative |-> negative, whole |-> whole, decimals |-> decimals]

\* a Python complex number of a real and an imaginary part
PyComplex(real, imag) == [k |-> "complex", real |-> real, imag |-> imag]

IsFloat(x) == x.k = "float"

IsComplex(x) == x.k = "complex"

RECURSIVE Pow10(_)
Pow10(n) == IF n = 0 THEN 1 ELSE 10 * Pow10(n - 1)

\* the number of decimals of a Python int or float
Decimals(x) == IF IsFloat(x) THEN Len(x.decimals) ELSE 0

\* a Python int or float times 10^n, an integer for n >= Decimals(x)
Scaled(x, n) ==
    IF IsInt(x) THEN x.v * Pow10(n)
    ELSE (IF x.negative THEN -1 ELSE 1)
            * (x.whole * Pow10(n) + int(x.decimals) * Pow10(n - Len(x.decimals)))

\* x < y for Python ints and floats
RealLess(x, y) ==
    LET n == IF Decimals(x) > Decimals(y) THEN Decimals(x) ELSE Decimals(y)
    IN  Scaled(x, n) < Scaled(y, n)

\* math.ceil(x): the int, or the TypeError of a value that is no real number
math_ceil(x) ==
    IF IsInt(x) THEN x
    ELSE IF IsFloat(x)
    THEN PyInt(IF x.negative THEN 0 - x.whole
               ELSE x.whole + (IF int(x.decimals) # 0 THEN 1 ELSE 0))
    ELSE Raise("TypeError")

\* math.floor(x): the int, or the TypeError of a value that is no real number
math_floor(x) ==
    IF IsInt(x) THEN x
    ELSE IF IsFloat(x)
    THEN PyInt(IF x.negative THEN 0 - (x.whole + (IF int(x.decimals) # 0 THEN 1 ELSE 0))
               ELSE x.whole)
    ELSE Raise("TypeError")

\* max(x, y): the first of the largest, or the TypeError of comparing a
\* complex number
max(x, y) ==
    IF IsComplex(x) \/ IsComplex(y) THEN Raise("TypeError")
    ELSE IF RealLess(x, y) THEN y ELSE x

\* min(x, y): the first of the smallest, or the TypeError of comparing a
\* complex number
min(x, y) ==
    IF IsComplex(x) \/ IsComplex(y) THEN Raise("TypeError")
    ELSE IF RealLess(y, x) THEN y ELSE x

\* the first exception among the values xs, or None: exceptions propagate
\* out of a list comprehension at the first element that raises
FirstErr(xs) ==
    IF \E i \in 1..Len(xs) : IsErr(xs[i])
    THEN xs[CHOOSE i \in 1..Len(xs) : IsErr(xs[i]) /\ \A j \in 1..(i-1) : ~IsErr(xs[j])]
    ELSE None

\* a list comprehension [... for ...]: the list, or the first exception
ListComp(xs) == IF FirstErr(xs) # None THEN FirstErr(xs) ELSE PyList(xs)

\* d[0] for a Python value d
Subscript0(d) ==
    IF ~IsList(d) THEN Raise("TypeError")
    ELSE IF Len(d.items) = 0 THEN Raise("IndexError")
    ELSE d.items[1]

\* iter(d): the items a for loop over d visits, or the TypeError of a
\* value that is not iterable
Iterate(d) == IF IsList(d) THEN d.items ELSE Raise("TypeError")

RECURSIVE Prod(_)
\* math.prod of a sequence of integers
Prod(s) == IF Len(s) = 0 THEN 1 ELSE Head(s) * Prod(Tail(s))

\* math.ceil(a / b) for integers a and b > 0
CeilDiv(a, b) == -((-a) \div b)

Min(a, b) == IF a < b THEN a ELSE b

\* s[i::step] of a Python list, i >= 0, step >= 1 (0-based), as a sequence
SliceFrom(s, i, step) ==
    IF i >= Len(s) THEN <<>>
    ELSE [j \in 1..CeilDiv(Len(s) - i, step) |-> s[i + (j-1)*step + 1]]

\* s[a:b] of a Python list with 0 <= a (0-based, b excluded), as a sequence
Slice(s, a, b) ==
    LET hi == IF b < 0 THEN (IF Len(s) + b < 0 THEN 0 ELSE Len(s) + b) ELSE Min(b, Len(s))
    IN  IF a >= hi THEN <<>> ELSE [j \in 1..(hi - a) |-> s[a + j]]

RECURSIVE Repeat(_, _)
\* s * n for a Python list s: n copies of s, the empty list when n <= 0
Repeat(s, n) == IF n <= 0 THEN <<>> ELSE s \o Repeat(s, n - 1)

----------------------------------------------------------------------------
(* arraymodel.py *)

APLArray(shape, data) == [k |-> "arr", shape |-> shape, data |-> data]

\* Helper method to create APLArray scalars.
S(v) == APLArray(<<>>, PyList(<<v>>))

is_scalar(self) == self.shape = <<>>

\* whether evaluating is_simple_scalar raises: self.data[0] is evaluated
\* when the shape is empty, and raises when data is no list (TypeError)
is_simple_scalar_raises(self) ==
    self.shape = <<>> /\ IsErr(Subscript0(self.data))

\* (not self.shape) and (not isinstance(self.data[0], APLArray))
is_simple_scalar(self) ==
    /\ self.shape = <<>>
    /\ ~IsErr(Subscript0(self.data))
    /\ ~IsAPLArray(Subscript0(self.data))

at_least_vector(self) ==
    IF is_simple_scalar_raises(self) THEN Subscript0(self.data)
    ELSE IF is_simple_scalar(self) THEN APLArray(<<1>>, PyList(<<self>>))
    ELSE self

\* a variant of n_cells that makes no test of the rank and encloses the
\* array for every n >= r
n_cells_EnclosesBeyondRank(self, n) ==
    IF n = 0 THEN self
    ELSE IF n >= Len(self.shape) THEN S(self)
    ELSE LET r == Len(self.shape)
             size == Prod(Slice(self.shape, r - n, r))
         IN  APLArray(Slice(self.shape, 0, r - n),
                 PyList([i \in 1..Prod(Slice(self.shape, 0, r - n)) |->
                     APLArray(Slice(self.shape, r - n, r),
                         PyList(Slice(self.data.items, (i-1)*size, i*size)))]))

n_cells(self, n) ==
    IF n = 0 THEN self
    ELSE LET r == Len(self.shape)
         IN  IF n > r THEN Raise("ValueError")
             ELSE IF r = n THEN S(self)
             ELSE LET result_shape == Slice(self.shape, 0, r - n)
                      cell_shape == Slice(self.shape, r - n, r)
                      size == Prod(cell_shape)
                  IN  IF ~IsList(self.data) THEN Raise("TypeError")
                      ELSE APLArray(result_shape,
                              PyList([i \in 1..Prod(result_shape) |->
                                  APLArray(cell_shape,
                                      PyList(Slice(self.data.items, (i-1)*size, i*size)))]))

major_cells(self) == n_cells(self, Len(self.shape) - 1)

RECURSIVE Eq(_, _)
\* APLArray.__eq__ and the == of lists and ints it rests on
Eq(x, y) ==
    IF IsAPLArray(x)
    THEN IsAPLArray(y) /\ x.shape = y.shape /\ Eq(x.data, y.data)
    ELSE IF IsList(x)
    THEN /\ IsList(y)
         /\ Len(x.items) = Len(y.items)
         /\ \A i \in 1..Len(x.items) : Eq(x.items[i], y.items[i])
    ELSE IF IsInt(x) THEN IsInt(y) /\ x.v = y.v
    ELSE FALSE

----------------------------------------------------------------------------
(* functions.py: scalar functions and pervasion *)

\* a variant of the Boolean type that accepts every integer
TypeBoolean_AnyInt(x) == IsInt(x)

\* TYPES["boolean"]: x in [0, 1]
TypeBoolean(x) == IsInt(x) /\ x.v \in {0, 1}

\* plus: complex conjugate (the identity on integers) and addition
plus(a, w) == IF a = None THEN w ELSE PyInt(a.v + w.v)

\* minus: symmetric number and subtraction
minus(a, w) == IF a = None THEN PyInt(0 - w.v) ELSE PyInt(a.v - w.v)

\* times: sign and multiplication
times(a, w) ==
    IF a = None
    THEN (IF w.v = 0 THEN PyInt(0) ELSE IF w.v > 0 THEN PyInt(1) ELSE PyInt(-1))
    ELSE PyInt(a.v * w.v)

\* less, eq: comparisons, int(alpha < omega) and int(alpha == omega);
\* None < n raises TypeError, None == n is False
less(a, w) ==
    IF a = None THEN Raise("TypeError")
    ELSE PyInt(IF a.v < w.v THEN 1 ELSE 0)

eq(a, w) == IF a = None THEN PyInt(0) ELSE PyInt(IF a.v = w.v THEN 1 ELSE 0)

\* ceiling: math.ceil(omega) and max; the test for a complex number is
\* made on alpha, which is None there
ceiling(a, w) ==
    IF a = None
    THEN IF IsComplex(a) THEN Raise("NotImplementedError") ELSE math_ceil(w)
    ELSE max(a, w)

\* floor: math.floor(omega) and min; the test for a complex number is
\* made on alpha, which is None there
floor(a, w) ==
    IF a = None
    THEN IF IsComplex(a) THEN Raise("NotImplementedError") ELSE math_floor(w)
    ELSE min(a, w)

\* _not: int(not omega), pervasive
not_scalar(w) == PyInt(IF w.v = 0 THEN 1 ELSE 0)

\* the decorators boolean_function (arg_types) and dyadic around a Boolean
\* function body: the type checks run first, then the valence check
BooleanWrapped(op, a, w) ==
    IF ~TypeBoolean(a) THEN Raise("TypeError")
    ELSE IF ~TypeBoolean(w) THEN Raise("TypeError")
    ELSE IF a = None THEN Raise("SyntaxError")
    ELSE CASE op = "and_" -> (IF a.v = 0 THEN a ELSE w)
           [] op = "nand" -> PyInt(1 - (IF a.v = 0 THEN a.v ELSE w.v))
           [] op = "or_"  -> (IF a.v # 0 THEN a ELSE w)
           [] op = "nor"  -> PyInt(1 - (IF a.v # 0 THEN a.v ELSE w.v))

\* the scalar function the decorator pervade wraps, applied to the
\* contents of two simple scalars (a is None in a monadic call)
ScalarFunc(func, a, w) ==
    CASE func = "plus"  -> plus(a, w)
      [] func = "minus" -> minus(a, w)
      [] func = "times" -> times(a, w)
      [] func = "less"  -> less(a, w)
      [] func = "eq"    -> eq(a, w)
      [] func = "_not"  -> not_scalar(w)
      [] func = "ceiling" -> ceiling(a, w)
      [] func = "floor" -> floor(a, w)
      [] func \in {"and_", "nand", "or_", "nor"} -> BooleanWrapped(func, a, w)

\* the scalar functions decorated with @pervade
PervasiveFuncs == {"plus", "minus", "times", "less", "eq", "and_", "nand", "or_", "nor"}

\* a variant of the shape test that compares the ranks only
ShapesMismatch_RanksOnly(a, w) == Len(a.shape) # Len(w.shape)

\* alpha.shape != omega.shape, the test that raises IndexError
ShapesMismatch(a, w) == a.shape # w.shape

\* shape = getattr(alpha, "shape", None) or omega.shape
PervadeShape(a, w) == IF a # None /\ a.shape # <<>> THEN a.shape ELSE w.shape

\* the data of two simple scalars: [func(omega=omega.data[0], alpha=alpha.data[0])]
PervadeLeaf(func, a, w) ==
    ListComp(<<ScalarFunc(func, IF a = None THEN None ELSE a.data.items[1], w.data.items[1])>>)

\* the data when both arguments have empty shape and one is not a simple
\* scalar: the recursive call's result r itself, not a list holding it
PervadeEnclosed(r) == r

\* a if a.is_simple_scalar() else a.data[0]
Unwrap(a) ==
    IF is_simple_scalar_raises(a) THEN Subscript0(a.data)
    ELSE IF is_simple_scalar(a) THEN a
    ELSE Subscript0(a.data)

RECURSIVE pervasive_func(_, _, _)
\* pervade(func)(alpha=a, omega=w)
pervasive_func(func, a, w) ==
    LET data ==
        IF a = None THEN
            IF w.shape # <<>> THEN
                IF ~IsList(w.data) THEN Raise("TypeError")
                ELSE ListComp([i \in 1..Len(w.data.items) |->
                        pervasive_func(func, None, w.data.items[i])])
            ELSE IF IsErr(Subscript0(w.data)) THEN Subscript0(w.data)
            ELSE IF IsAPLArray(Subscript0(w.data))
            THEN ListComp(<<pervasive_func(func, None, Subscript0(w.data))>>)
            ELSE PervadeLeaf(func, None, w)
        ELSE IF a.shape # <<>> /\ w.shape # <<>> THEN
            IF ShapesMismatch(a, w) THEN Raise("IndexError")
            ELSE IF ~IsList(w.data) \/ ~IsList(a.data) THEN Raise("TypeError")
            ELSE ListComp([i \in 1..Min(Len(w.data.items), Len(a.data.items)) |->
                    pervasive_func(func, a.data.items[i], w.data.items[i])])
        ELSE IF a.shape # <<>> THEN
            IF IsErr(Unwrap(w)) THEN Unwrap(w)
            ELSE IF ~IsList(a.data) THEN Raise("TypeError")
            ELSE ListComp([i \in 1..Len(a.data.items) |->
                    pervasive_func(func, a.data.items[i], Unwrap(w))])
        ELSE IF w.shape # <<>> THEN
            IF IsErr(Unwrap(a)) THEN Unwrap(a)
            ELSE IF ~IsList(w.data) THEN Raise("TypeError")
            ELSE ListComp([i \in 1..Len(w.data.items) |->
                    pervasive_func(func, Unwrap(a), w.data.items[i])])
        ELSE IF is_simple_scalar_raises(a) THEN Subscript0(a.data)
        ELSE IF is_simple_scalar(a) /\ is_simple_scalar_raises(w) THEN Subscript0(w.data)
        ELSE IF is_simple_scalar(a) /\ is_simple_scalar(w) THEN PervadeLeaf(func, a, w)
        ELSE IF IsErr(Unwrap(w)) THEN Unwrap(w)
        ELSE PervadeEnclosed(pervasive_func(func, Unwrap(a), Unwrap(w)))
    IN  IF IsErr(data) THEN data ELSE APLArray(PervadeShape(a, w), data)

----------------------------------------------------------------------------
(* functions.py: structural primitives *)

\* a variant of enclose that wraps every argument, simple scalars too
lshoe_AlwaysWraps(a, w) ==
    IF a = None THEN APLArray(<<>>, PyList(<<w>>)) ELSE Raise("NotImplementedError")

right_tack(a, w) == w

left_tack(a, w) == IF a # None THEN a ELSE w

lshoe(a, w) ==
    IF a = None THEN
        IF is_simple_scalar_raises(w) THEN Subscript0(w.data)
        ELSE IF is_simple_scalar(w) THEN w
        ELSE APLArray(<<>>, PyList(<<w>>))
    ELSE Raise("NotImplementedError")

\* [d.data[0] for d in a.data]
FirstItems(a) ==
    IF ~IsList(a.data) THEN Raise("TypeError")
    ELSE ListComp([i \in 1..Len(a.data.items) |-> Subscript0(a.data.items[i].data)])

\* the target shape of a reshape, as a list of Python values: [alpha.data[0]]
\* for a scalar alpha, else [d.data[0] for d in alpha.data]
RhoShape(a) ==
    IF is_scalar(a) THEN ListComp(<<Subscript0(a.data)>>)
    ELSE FirstItems(a)

\* the integers held by a list of Python ints
Ints(xs) == [i \in 1..Len(xs) |-> xs[i].v]

\* a variant of the fill that repeats the data floor(n/len) times
RhoFill_Floor(data_from, n) == Slice(Repeat(data_from, n \div Len(data_from)), 0, n)

\* data_from*(math.ceil(math.prod(shape)/len(data_from))), truncated to
\* math.prod(shape) elements
RhoFill(data_from, n) == Slice(Repeat(data_from, CeilDiv(n, Len(data_from))), 0, n)

rho(a, w) ==
    IF a = None THEN
        APLArray(<<Len(w.shape)>>, PyList([i \in 1..Len(w.shape) |-> S(PyInt(w.shape[i]))]))
    ELSE IF Len(a.shape) > 1 THEN Raise("ValueError")
    ELSE LET shape == RhoShape(a) IN
         IF IsErr(shape) THEN shape
         ELSE IF \E i \in 1..Len(shape.items) : ~IsInt(shape.items[i]) THEN Raise("TypeError")
         ELSE LET data_from == IF Len(w.shape) > 0 THEN w.data ELSE PyList(<<w>>) IN
              IF ~IsList(data_from) THEN Raise("TypeError")
              ELSE IF Len(data_from.items) = 0 THEN Raise("ZeroDivisionError")
              ELSE APLArray(Ints(shape.items),
                            PyList(RhoFill(data_from.items, Prod(Ints(shape.items)))))

\* Python's floor division and modulo for a divisor b # 0
PyFloorDiv(a, b) == IF b > 0 THEN a \div b ELSE (-a) \div (-b)

PyMod(a, b) == a - b * PyFloorDiv(a, b)

Reverse(s) == [i \in 1..Len(s) |-> s[Len(s) + 1 - i]]

RECURSIVE DecodeLoop(_, _, _, _)
\* the loop of _decode over zip(alphas[::-1], omegas[::-1]), given as the
\* reversed integer sequences ra, ro: the final acc
DecodeLoop(ra, ro, acc, acc_prod) ==
    IF Len(ra) = 0 \/ Len(ro) = 0 THEN acc
    ELSE DecodeLoop(Tail(ra), Tail(ro), acc + acc_prod * Head(ro), acc_prod * Head(ra))

\* _decode(alpha, omega) for two APLArray vectors
decode_helper(a, o) ==
    LET alphas == FirstItems(a)
        omegas == FirstItems(o)
    IN  IF IsErr(alphas) THEN alphas
        ELSE IF IsErr(omegas) THEN omegas
        ELSE LET n == Min(Len(alphas.items), Len(omegas.items))
                 ra == SubSeq(Reverse(alphas.items), 1, n)
                 ro == SubSeq(Reverse(omegas.items), 1, n)
             IN  IF \E i \in 1..n : ~IsInt(ra[i]) \/ ~IsInt(ro[i])
                 THEN Raise("TypeError")
                 ELSE S(PyInt(DecodeLoop(Ints(ra), Ints(ro), 0, 1)))

\* decode after omega was promoted and alpha reshaped: a and o have the
\* paired axis; final_shape was computed from the original arguments
DecodeCells(final_shape, a, o) ==
    LET dist == Prod(Slice(o.shape, 1, Len(o.shape)))
        enclosure == [i \in 1..dist |->
            APLArray(<<o.shape[1]>>, PyList(SliceFrom(o.data.items, i - 1, dist)))]
        cells == n_cells(a, 1)
    IN  IF IsErr(cells) THEN cells
        ELSE LET n == Len(cells.data.items)
                 data == ListComp([q \in 1..(n * dist) |->
                            decode_helper(cells.data.items[((q - 1) \div dist) + 1],
                                          enclosure[((q - 1) % dist) + 1])])
             IN  IF IsErr(data) THEN data
                 ELSE IF final_shape # <<>> THEN APLArray(final_shape, data)
                 ELSE Subscript0(data)

decode(a0, w0) ==
    IF a0 = None THEN Raise("SyntaxError")
    ELSE LET final_shape == Slice(a0.shape, 0, -1) \o Slice(w0.shape, 1, Len(w0.shape))
             w1 == at_least_vector(w0)
         IN  IF IsErr(w1) THEN w1
             ELSE IF is_simple_scalar_raises(a0) THEN Subscript0(a0.data)
             ELSE IF (is_simple_scalar(a0) \/ a0.shape = <<1>>) /\ w1.shape = <<>>
             THEN Raise("IndexError")
             ELSE LET a1 == IF is_simple_scalar(a0) \/ a0.shape = <<1>>
                            THEN rho(S(PyInt(w1.shape[1])), a0) ELSE a0
                  IN  IF IsErr(a1) THEN a1
                      ELSE IF w1.shape = <<>> \/ a1.shape = <<>> THEN Raise("IndexError")
                      ELSE IF w1.shape[1] # a1.shape[Len(a1.shape)] /\ w1.shape[1] # 1
                      THEN Raise("IndexError")
                      ELSE LET w2 == IF w1.shape[1] # a1.shape[Len(a1.shape)]
                                     THEN rho(APLArray(<<Len(w1.shape)>>,
                                              PyList([i \in 1..Len(w1.shape) |->
                                                  S(PyInt((<<a1.shape[Len(a1.shape)]>> \o Tail(w1.shape))[i]))])),
                                             w1)
                                     ELSE w1
                           IN  IF IsErr(w2) THEN w2
                               ELSE DecodeCells(final_shape, a1, w2)

RECURSIVE EncodeDigits(_, _)
\* the loop of _encode over radices[::-1], given reversed as rr: the
\* digits bs in the order they are appended (least significant first)
EncodeDigits(rr, n) ==
    IF Len(rr) = 0 THEN <<>>
    ELSE IF Head(rr) # 0
    THEN <<PyMod(n, Head(rr))>> \o EncodeDigits(Tail(rr), PyFloorDiv(n, Head(rr)))
    ELSE <<n>> \o EncodeDigits(Tail(rr), 0)

\* a variant of _encode that leaves the digits least significant first
encode_helper_Unreversed(radices, n) ==
    LET has0 == \E i \in 1..Len(radices) : IsInt(radices[i]) /\ radices[i].v = 0
        nonint == \E i \in 1..Len(radices) : ~IsInt(radices[i])
    IN  IF ~IsInt(n) \/ (~has0 /\ nonint) THEN Raise("TypeError")
        ELSE IF has0 /\ n.v + 1 = 0 THEN Raise("ZeroDivisionError")
        ELSE IF nonint THEN Raise("TypeError")
        ELSE LET rs == Ints(radices)
                 modulus == IF has0 THEN n.v + 1 ELSE Prod(rs)
             IN  PyList(EncodeDigits(Reverse(rs), PyMod(n.v, modulus)))

\* _encode(radices, n) for sequences of Python values: the list of digits
\* as integers, most significant first
encode_helper(radices, n) ==
    LET has0 == \E i \in 1..Len(radices) : IsInt(radices[i]) /\ radices[i].v = 0
        nonint == \E i \in 1..Len(radices) : ~IsInt(radices[i])
    IN  IF ~IsInt(n) \/ (~has0 /\ nonint) THEN Raise("TypeError")
        ELSE IF has0 /\ n.v + 1 = 0 THEN Raise("ZeroDivisionError")
        ELSE IF nonint THEN Raise("TypeError")
        ELSE LET rs == Ints(radices)
                 modulus == IF has0 THEN n.v + 1 ELSE Prod(rs)
             IN  PyList(Reverse(EncodeDigits(Reverse(rs), PyMod(n.v, modulus))))

\* xs[start::step] = vals for a Python list xs: the list after the slice
\* assignment, or the ValueError of an extended slice of another size
SliceAssign(xs, start, step, vals) ==
    IF step = 0 THEN Raise("ValueError")
    ELSE IF step = 1 THEN PyList(Slice(xs, 0, start) \o vals)
    ELSE IF Len(SliceFrom(xs, start, step)) # Len(vals) THEN Raise("ValueError")
    ELSE PyList([q \in 1..Len(xs) |->
            IF q - 1 >= start /\ (q - 1 - start) % step = 0
            THEN vals[((q - 1 - start) \div step) + 1]
            ELSE xs[q]])

\* rdist = math.prod(result_shape[1:]): the distance between the digits of
\* one encoding in result_data
EncodeStride(result_shape) == Prod(Slice(result_shape, 1, Len(result_shape)))

\* the pass (i, j) of the two nested loops of encode (both count from 0):
\* the exception raised, None when the inner loop is over, else
\* result_data after the slice assignment
EncodePass(i, j, a, w0, dist, rdist, result_data) ==
    LET column == SliceFrom(a.data.items, i, dist)
        radices == ListComp([t \in 1..Len(column) |-> Subscript0(column[t].data)])
        w1 == at_least_vector(w0)
    IN  IF IsErr(radices) THEN radices
        ELSE IF IsErr(w1) THEN w1
        ELSE IF ~IsList(w1.data) THEN Raise("TypeError")
        ELSE IF j >= Len(w1.data.items) THEN None
        ELSE LET n == Subscript0(w1.data.items[j + 1].data) IN
             IF IsErr(n) THEN n
             ELSE LET digits == encode_helper(radices.items, n) IN
                  IF IsErr(digits) THEN digits
                  ELSE SliceAssign(result_data, i * Prod(w0.shape) + j, rdist,
                           [t \in 1..Len(digits.items) |-> S(PyInt(digits.items[t]))])

RECURSIVE EncodeLoop(_, _, _, _, _, _, _)
\* the two nested loops of encode from the pass (i, j) on: the final
\* result_data, or the exception that ends the loops
EncodeLoop(i, j, a, w0, dist, rdist, result_data) ==
    IF i >= dist THEN PyList(result_data)
    ELSE LET pass == EncodePass(i, j, a, w0, dist, rdist, result_data)
         IN  IF IsErr(pass) THEN pass
             ELSE IF pass = None THEN EncodeLoop(i + 1, 0, a, w0, dist, rdist, result_data)
             ELSE EncodeLoop(i, j + 1, a, w0, dist, rdist, pass.items)

encode(a0, w0) ==
    IF a0 = None THEN Raise("SyntaxError")
    ELSE LET result_shape == a0.shape \o w0.shape
             a1 == at_least_vector(a0)
         IN  IF IsErr(a1) THEN a1
             ELSE IF ~IsList(a1.data) THEN Raise("TypeError")
             ELSE LET data == EncodeLoop(0, 0, a1, w0,
                                  Prod(Slice(a1.shape, 1, Len(a1.shape))),
                                  EncodeStride(result_shape),
                                  [q \in 1..Prod(result_shape) |-> PyInt(0)])
                  IN  IF IsErr(data) THEN data
                      ELSE IF result_shape # <<>> THEN APLArray(result_shape, data)
                      ELSE Subscript0(data)

\* x in xs for a Python list xs, by == on the elements
In(x, xs) == \E i \in 1..Len(xs) : Eq(x, xs[i])

RECURSIVE WithoutLoop(_, _, _, _)
\* the loop of _without over the major cells from the i-th on: the pair
\* <<newdata, count>>
WithoutLoop(majors, haystack, newdata, count) ==
    IF Len(majors) = 0 THEN <<newdata, count>>
    ELSE LET major == Head(majors) IN
         IF ~In(major, haystack)
         THEN WithoutLoop(Tail(majors), haystack,
                          IF is_scalar(major) THEN Append(newdata, major)
                          ELSE newdata \o major.data.items,
                          count + 1)
         ELSE WithoutLoop(Tail(majors), haystack, newdata, count)

\* the arrays excluded from the left argument: omega.n_cells(needle_rank).data
Haystack(w, needle_rank) ==
    IF IsErr(n_cells(w, needle_rank)) THEN n_cells(w, needle_rank)
    ELSE n_cells(w, needle_rank).data

without_dyadic(a, w) ==
    LET alpha_majors == major_cells(a)
        needle_rank == Len(a.shape) - 1
    IN  IF IsErr(alpha_majors) THEN alpha_majors
        ELSE IF needle_rank > Len(w.shape) THEN Raise("ValueError")
        ELSE LET haystack == Haystack(w, needle_rank) IN
             IF IsErr(haystack) THEN haystack
             ELSE IF ~IsList(alpha_majors.data) THEN Raise("TypeError")
             ELSE IF Len(alpha_majors.data.items) = 0
             THEN APLArray(<<0>> \o Slice(a.shape, 1, Len(a.shape)), PyList(<<>>))
             ELSE IF ~IsList(haystack) THEN Raise("TypeError")
             ELSE LET r == WithoutLoop(alpha_majors.data.items, haystack.items, <<>>, 0)
                  IN  APLArray(<<r[2]>> \o Slice(a.shape, 1, Len(a.shape)), PyList(r[1]))

\* the pervasive primitive named func called with alpha=a, omega=w
CallPervasive(func, a, w) == pervasive_func(func, a, w)

without(a, w) ==
    IF a = None THEN pervasive_func("_not", None, w) ELSE without_dyadic(a, w)

\* elem.data[0] for an element of omega.data: a number has no data
ElemData0(elem) ==
    IF ~IsAPLArray(elem) THEN Raise("AttributeError") ELSE Subscript0(elem.data)

\* the shape of the indices, as a list of Python values: [omega.data[0]]
\* for a scalar that holds an int, else [elem.data[0] for elem in omega.data]
IotaShape(w) ==
    IF IsErr(Subscript0(w.data)) /\ is_scalar(w) THEN Subscript0(w.data)
    ELSE IF is_scalar(w) /\ IsInt(Subscript0(w.data)) THEN PyList(<<Subscript0(w.data)>>)
    ELSE IF ~IsList(w.data) THEN Raise("TypeError")
    ELSE ListComp([i \in 1..Len(w.data.items) |-> ElemData0(w.data.items[i])])

\* the data of the indices: S(d[0]) for a scalar omega, else the vector
\* of the digits d, for d = _encode(shape, n) and n in range(prod(shape));
\* the digits of encode_helper are integers, Python ints here
IotaData(w, shape) ==
    [n \in 1..Prod(Ints(shape)) |->
        LET d == encode_helper(shape, PyInt(n - 1))
        IN  IF IsErr(d) THEN d
            ELSE IF is_scalar(w)
            THEN (IF Len(d.items) = 0 THEN Raise("IndexError") ELSE S(PyInt(d.items[1])))
            ELSE APLArray(<<Len(shape)>>,
                          PyList([i \in 1..Len(d.items) |-> S(PyInt(d.items[i]))]))]

\* _index_generator(omega=w)
index_generator(w) ==
    IF Len(w.shape) > 1 THEN Raise("ValueError")
    ELSE LET shape == IotaShape(w)
         IN  IF IsErr(shape) THEN shape
             ELSE IF \E i \in 1..Len(shape.items) : ~IsInt(shape.items[i])
             THEN Raise("TypeError")
             ELSE IF \E i \in 1..Len(shape.items) : shape.items[i].v < 0
             THEN Raise("ValueError")
             ELSE LET data == ListComp(IotaData(w, shape.items))
                  IN  IF IsErr(data) THEN data ELSE APLArray(Ints(shape.items), data)

iota(a, w) == IF a = None THEN index_generator(w) ELSE Raise("NotImplementedError")

\* the primitives of functions.py the model covers
Primitives ==
    PervasiveFuncs
    \cup {"ceiling", "floor", "right_tack", "left_tack", "lshoe", "rho", "decode",
          "encode", "without", "iota"}

\* getattr(functions, name)(alpha=a, omega=w)
Function(name, a, w) ==
    CASE name \in PervasiveFuncs -> CallPervasive(name, a, w)
      [] name = "right_tack" -> right_tack(a, w)
      [] name = "left_tack" -> left_tack(a, w)
      [] name = "lshoe" -> lshoe(a, w)
      [] name = "rho" -> rho(a, w)
      [] name = "decode" -> decode(a, w)
      [] name = "encode" -> encode(a, w)
      [] name = "without" -> without(a, w)
      [] name = "iota" -> iota(a, w)
      [] name \in {"ceiling", "floor"} -> CallPervasive(name, a, w)

----------------------------------------------------------------------------
(* rgspl.py: the Tokenizer.  Source text is a sequence of characters, one  *)
(* string each; a character outside ASCII is written by its code point.    *)

HighMinus == "U+00AF"
Times == "U+00D7"
Divide == "U+00F7"
UpStile == "U+2308"
DownStile == "U+230A"
RightTack == "U+22A2"
LeftTack == "U+22A3"
Iota == "U+2373"
LessEqual == "U+2264"
GreaterEqual == "U+2265"
NotEqual == "U+2260"
LeftShoe == "U+2282"
Rho_ == "U+2374"
TildeDiaeresis == "U+2368"
Diaeresis == "U+00A8"
Jot == "U+2218"
CircleDiaeresis == "U+2365"
LeftArrow == "U+2190"
Diamond == "U+22C4"
Lamp == "U+235D"
Newline == "U+000A"
Tab == "U+0009"

PyStr(s) == [k |-> "str", v |-> s]

Token(type_, value) == [k |-> "Token", type |-> type_, value |-> value]

FUNCTIONS ==
    { "PLUS", "MINUS", "TIMES", "DIVIDE", "FLOOR", "CEILING", "RIGHT_TACK", "LEFT_TACK",
      "IOTA", "LESS", "LESSEQ", "EQ", "GREATEREQ", "GREATER", "NEQ", "WITHOUT", "LSHOE",
      "RHO" }

MONADIC_OPS == {"COMMUTE", "DIAERESIS"}

DYADIC_OPS == {"JOT", "OVER"}

\* the pairs <<character, token type>>
WYSIWYG_MAPPING ==
    { <<"+", "PLUS">>, <<"-", "MINUS">>, <<Times, "TIMES">>, <<Divide, "DIVIDE">>,
      <<UpStile, "CEILING">>, <<DownStile, "FLOOR">>, <<RightTack, "RIGHT_TACK">>,
      <<LeftTack, "LEFT_TACK">>, <<Iota, "IOTA">>, <<"<", "LESS">>,
      <<LessEqual, "LESSEQ">>, <<"=", "EQ">>, <<GreaterEqual, "GREATEREQ">>,
      <<">", "GREATER">>, <<NotEqual, "NEQ">>, <<"~", "WITHOUT">>, <<LeftShoe, "LSHOE">>,
      <<Rho_, "RHO">>, <<TildeDiaeresis, "COMMUTE">>, <<Diaeresis, "DIAERESIS">>,
      <<Jot, "JOT">>, <<CircleDiaeresis, "OVER">>, <<LeftArrow, "ASSIGNMENT">>,
      <<"(", "LPARENS">>, <<")", "RPARENS">>, <<Diamond, "DIAMOND">>,
      <<Newline, "DIAMOND">> }

\* str.isdigit() for the characters of the model
IsDigit(c) == \E i \in 1..Len(DigitChars) : DigitChars[i] = c

ID_CHARS ==
    { "_", "a", "b", "c", "d", "e", "f", "g", "h", "i", "j", "k", "l", "m", "n", "o", "p",
      "q", "r", "s", "t", "u", "v", "w", "x", "y", "z", "A", "B", "C", "D", "E", "F", "G",
      "H", "I", "J", "K", "L", "M", "N", "O", "P", "Q", "R", "S", "T", "U", "V", "W", "X",
      "Y", "Z" } \cup {DigitChars[i] : i \in 1..Len(DigitChars)}

\* Tokenizer.error: raise Exception(f"TokenizerError: {message}"); the
\* message of the exception is kept as the parts of the f-string
error(message) ==
    [k |-> "err", kind |-> "Exception", message |-> <<"TokenizerError: ", message>>]

\* self.current_char with the cursor at pos (counted from 0): the empty
\* string stands for None, past the end of the code
current_char(code_, pos) == IF pos >= Len(code_) THEN "" ELSE code_[pos + 1]

RECURSIVE skip_whitespace(_, _)
\* the cursor after skip_whitespace
skip_whitespace(code_, pos) ==
    IF current_char(code_, pos) \in {" ", Tab} THEN skip_whitespace(code_, pos + 1) ELSE pos

RECURSIVE SkipToNewline(_, _)
SkipToNewline(code_, pos) ==
    IF current_char(code_, pos) \notin {"", Newline} THEN SkipToNewline(code_, pos + 1)
    ELSE pos

\* the cursor after skip_comment
skip_comment(code_, pos) ==
    IF current_char(code_, pos) # Lamp THEN pos ELSE SkipToNewline(code_, pos)

RECURSIVE DigitsEnd(_, _)
\* the cursor after the digits that start at pos
DigitsEnd(code_, pos) ==
    IF IsDigit(current_char(code_, pos)) THEN DigitsEnd(code_, pos + 1) ELSE pos

\* get_integer: the text code[start_idx:self.pos] or "0", and the cursor
get_integer(code_, pos) ==
    LET end == DigitsEnd(code_, pos)
    IN  [text |-> IF end = pos THEN <<"0">> ELSE SubSeq(code_, pos + 1, end), pos |-> end]

RECURSIVE StripZeros(_)
\* the digits of text without its trailing zeros
StripZeros(text) ==
    IF Len(text) > 0 /\ text[Len(text)] = "0" THEN StripZeros(SubSeq(text, 1, Len(text) - 1))
    ELSE text

\* get_real_number: the number (an int, or a float when the decimal part
\* is not zero) and the cursor
get_real_number(code_, pos) ==
    LET negative == current_char(code_, pos) = HighMinus
        int_ == get_integer(code_, IF negative THEN pos + 1 ELSE pos)
        decimal == current_char(code_, int_.pos) = "."
        dec_ == IF decimal THEN get_integer(code_, int_.pos + 1)
                ELSE [text |-> <<"0">>, pos |-> int_.pos]
    IN  [value |-> IF int(dec_.text) # 0
                   THEN PyFloat(negative, int(int_.text), StripZeros(dec_.text))
                   ELSE PyInt(IF negative THEN 0 - int(int_.text) ELSE int(int_.text)),
         pos |-> dec_.pos]

\* a variant of get_number_token that makes a COMPLEX token of every
\* literal with a J
get_number_token_ComplexOnJ(code_, pos) ==
    LET real == get_real_number(code_, pos)
        complex == current_char(code_, real.pos) = "J"
        im == IF complex THEN get_real_number(code_, real.pos + 1)
              ELSE [value |-> PyInt(0), pos |-> real.pos]
    IN  [token |-> IF complex THEN Token("COMPLEX", PyComplex(real.value, im.value))
                   ELSE IF IsInt(real.value) THEN Token("INTEGER", real.value)
                   ELSE Token("FLOAT", real.value),
         pos |-> im.pos]

\* get_number_token: the INTEGER, FLOAT or COMPLEX token and the cursor
get_number_token(code_, pos) ==
    LET real == get_real_number(code_, pos)
        complex == current_char(code_, real.pos) = "J"
        im == IF complex THEN get_real_number(code_, real.pos + 1)
              ELSE [value |-> PyInt(0), pos |-> real.pos]
    IN  [token |-> IF im.value # PyInt(0) THEN Token("COMPLEX", PyComplex(real.value, im.value))
                   ELSE IF IsInt(real.value) THEN Token("INTEGER", real.value)
                   ELSE Token("FLOAT", real.value),
         pos |-> im.pos]

RECURSIVE IdEnd(_, _)
IdEnd(code_, pos) ==
    IF current_char(code_, pos) \in ID_CHARS THEN IdEnd(code_, pos + 1) ELSE pos

RECURSIVE Join(_)
\* the string made of the characters cs
Join(cs) == IF Len(cs) = 0 THEN "" ELSE Head(cs) \o Join(Tail(cs))

get_id_token(code_, pos) ==
    [token |-> Token("ID", PyStr(Join(SubSeq(code_, pos + 1, IdEnd(code_, pos))))),
     pos |-> IdEnd(code_, pos)]

get_wysiwyg_token(code_, pos) ==
    LET char == current_char(code_, pos)
    IN  [token |-> Token((CHOOSE p \in WYSIWYG_MAPPING : p[1] = char)[2], PyStr(char)),
         pos |-> pos + 1]

\* get_next_token with the cursor at pos: the token (or the exception
\* raised) and the cursor after it
get_next_token(code_, pos0) ==
    LET pos == skip_comment(code_, skip_whitespace(code_, pos0))
        char == current_char(code_, pos)
    IN  IF char = "" THEN [token |-> Token("EOF", None), pos |-> pos]
        ELSE IF char = HighMinus \/ char = "." \/ IsDigit(char)
        THEN get_number_token(code_, pos)
        ELSE IF char \in ID_CHARS THEN get_id_token(code_, pos)
        ELSE IF \E p \in WYSIWYG_MAPPING : p[1] = char THEN get_wysiwyg_token(code_, pos)
        ELSE [token |-> error("Could not parse the next token..."), pos |-> pos]

RECURSIVE TokenizeLoop(_, _, _)

\* a variant of the loop of tokenize that puts every token read before the
\* ones read earlier
TokenizeLoop_Prepends(code_, pos, toks) ==
    LET next == get_next_token(code_, pos)
    IN  IF IsErr(next.token) THEN next.token
        ELSE IF next.token.type = "EOF" THEN PyList(<<next.token>> \o toks)
        ELSE TokenizeLoop(code_, next.pos, <<next.token>> \o toks)

\* the loop of tokenize once the tokens toks are read: the list with the
\* EOF token moved to the front
TokenizeLoop(code_, pos, toks) ==
    LET next == get_next_token(code_, pos)
    IN  IF IsErr(next.token) THEN next.token
        ELSE IF next.token.type = "EOF" THEN PyList(<<next.token>> \o toks)
        ELSE TokenizeLoop(code_, next.pos, Append(toks, next.token))

\* Tokenizer(code).tokenize(); the constructor reads code[0]
tokenize(code_) ==
    IF Len(code_) = 0 THEN Raise("IndexError") ELSE TokenizeLoop(code_, 0, <<>>)

----------------------------------------------------------------------------
(* rgspl.py: the AST and the Parser.  The parser reads the tokens from the *)
(* last to the first; pos counts from 0 as in the code.                    *)

S_(token) == [k |-> "S", token |-> token]

V(children) == [k |-> "V", children |-> children]

MOp(token, child) == [k |-> "MOp", token |-> token, child |-> child]

DOp(token, left, right) == [k |-> "DOp", token |-> token, left |-> left, right |-> right]

F(token) == [k |-> "F", token |-> token]

Monad(function, omega_) == [k |-> "Monad", function |-> function, omega |-> omega_]

Dyad(function, alpha_, omega_) ==
    [k |-> "Dyad", function |-> function, alpha |-> alpha_, omega |-> omega_]

Assignment(varname, value) == [k |-> "Assignment", varname |-> varname, value |-> value]

Var(token) == [k |-> "Var", token |-> token]

Statements(children) == [k |-> "Statements", children |-> children]

\* what a parse method returns: the node, and the parser's pos after it
Parsed(node, pos) == [k |-> "parsed", node |-> node, pos |-> pos]

\* self.token_at
token_at(toks, pos) == toks[pos + 1]

array_tokens == {"INTEGER", "FLOAT", "COMPLEX", "ID"}

RECURSIVE peek_beyond_parens_from(_, _)
peek_beyond_parens_from(toks, peek_at) ==
    IF peek_at >= 0 /\ toks[peek_at + 1].type = "RPARENS"
    THEN peek_beyond_parens_from(toks, peek_at - 1)
    ELSE IF peek_at < 0 THEN "None" ELSE toks[peek_at + 1].type

peek_beyond_parens(toks, pos) == peek_beyond_parens_from(toks, pos - 1)

\* Parser.error: raise Exception(f"Parser: {message}"); the message of the
\* exception is kept as the parts of the f-strings
parser_error(message) ==
    [k |-> "err", kind |-> "Exception", message |-> <<"Parser: ">> \o message]

\* the message of eat for a token of another type than token_type
Expected(token_type, actual) == <<"Expected ", token_type, " and got ", actual, ".">>

parse_scalar(toks, pos) ==
    IF token_at(toks, pos).type = "ID" THEN Parsed(Var(token_at(toks, pos)), pos - 1)
    ELSE IF token_at(toks, pos).type \in {"INTEGER", "FLOAT", "COMPLEX"}
    THEN Parsed(S_(token_at(toks, pos)), pos - 1)
    ELSE parser_error(Expected("COMPLEX", token_at(toks, pos).type))

\* self.eat(token_type) after a parse method returned parsed: the
\* exception it raised, or that of a token of another type, else the
\* node with the parser one token further
eat(toks, parsed, token_type) ==
    IF IsErr(parsed) THEN parsed
    ELSE IF token_at(toks, parsed.pos).type # token_type
    THEN parser_error(Expected(token_type, token_at(toks, parsed.pos).type))
    ELSE Parsed(parsed.node, parsed.pos - 1)

RECURSIVE parse_statement(_, _), parse_function(_, _), ParseVectorLoop(_, _, _)

parse_f(toks, pos) ==
    IF token_at(toks, pos).type \in FUNCTIONS THEN Parsed(F(token_at(toks, pos)), pos - 1)
    ELSE IF token_at(toks, pos).type # "RPARENS"
    THEN parser_error(Expected("RPARENS", token_at(toks, pos).type))
    ELSE eat(toks, parse_function(toks, pos - 1), "LPARENS")

\* a variant of parse_function where the left operand of a dyadic operator
\* is the one function parse_f reads
parse_function_LeftByParseF(toks, pos) ==
    IF token_at(toks, pos).type \in MONADIC_OPS
    THEN LET child == parse_function(toks, pos - 1)
         IN  IF IsErr(child) THEN child
             ELSE Parsed(MOp(token_at(toks, pos), child.node), child.pos)
    ELSE LET function == parse_f(toks, pos)
         IN  IF IsErr(function) THEN function
             ELSE IF token_at(toks, function.pos).type \in DYADIC_OPS
             THEN LET left == parse_f(toks, function.pos - 1)
                  IN  IF IsErr(left) THEN left
                      ELSE Parsed(DOp(token_at(toks, function.pos), left.node, function.node),
                                  left.pos)
             ELSE function

\* parse_function, with parse_mop for a monadic operator
parse_function(toks, pos) ==
    IF token_at(toks, pos).type \in MONADIC_OPS
    THEN LET child == parse_function(toks, pos - 1)
         IN  IF IsErr(child) THEN child
             ELSE Parsed(MOp(token_at(toks, pos), child.node), child.pos)
    ELSE LET function == parse_f(toks, pos)
         IN  IF IsErr(function) THEN function
             ELSE IF token_at(toks, function.pos).type \in DYADIC_OPS
             THEN LET left == parse_function(toks, function.pos - 1)
                  IN  IF IsErr(left) THEN left
                      ELSE Parsed(DOp(token_at(toks, function.pos), left.node, function.node),
                                  left.pos)
             ELSE function

\* the while loop of parse_vector with the nodes read so far: the nodes
\* in the order they were read
ParseVectorLoop(toks, pos, nodes) ==
    IF token_at(toks, pos).type \in array_tokens
    THEN LET scalar == parse_scalar(toks, pos)
         IN  ParseVectorLoop(toks, scalar.pos, Append(nodes, scalar.node))
    ELSE IF token_at(toks, pos).type = "RPARENS"
            /\ peek_beyond_parens(toks, pos) \in array_tokens
    THEN LET statement == eat(toks, parse_statement(toks, pos - 1), "LPARENS")
         IN  IF IsErr(statement) THEN statement
             ELSE ParseVectorLoop(toks, statement.pos, Append(nodes, statement.node))
    ELSE Parsed(nodes, pos)

\* a variant of the end of parse_vector that keeps the nodes in the order
\* the loop read them
VectorNode_ReadOrder(read) ==
    IF IsErr(read) THEN read
    ELSE IF Len(read.node) = 0
    THEN parser_error(<<"Failed to parse scalars inside a vector.">>)
    ELSE IF Len(read.node) = 1 THEN Parsed(read.node[1], read.pos)
    ELSE Parsed(V(read.node), read.pos)

\* the end of parse_vector for the nodes the loop read
VectorNode(read) ==
    IF IsErr(read) THEN read
    ELSE IF Len(read.node) = 0
    THEN parser_error(<<"Failed to parse scalars inside a vector.">>)
    ELSE IF Len(read.node) = 1 THEN Parsed(read.node[1], read.pos)
    ELSE Parsed(V(Reverse(read.node)), read.pos)

parse_vector(toks, pos) == VectorNode(ParseVectorLoop(toks, pos, <<>>))

relevant_types == {"ASSIGNMENT", "RPARENS"} \cup FUNCTIONS \cup MONADIC_OPS

\* the else branch of the loop of parse_statement once the function is
\* parsed: the Dyad or the Monad of the function and the statement so far
Call(toks, function, statement) ==
    IF IsErr(function) THEN function
    ELSE IF token_at(toks, function.pos).type \in {"RPARENS", "INTEGER", "FLOAT", "COMPLEX", "ID"}
    THEN LET array == parse_vector(toks, function.pos)
         IN  IF IsErr(array) THEN array
             ELSE Parsed(Dyad(function.node, array.node, statement), array.pos)
    ELSE Parsed(Monad(function.node, statement), function.pos)

RECURSIVE ParseStatementLoop(_, _)
\* the while loop of parse_statement with the statement built so far, or
\* the exception raised on the way
ParseStatementLoop(toks, statement) ==
    IF IsErr(statement) THEN statement
    ELSE IF token_at(toks, statement.pos).type \notin relevant_types THEN statement
    ELSE IF token_at(toks, statement.pos).type = "ASSIGNMENT"
    THEN IF token_at(toks, statement.pos - 1).type # "ID"
         THEN parser_error(Expected("ID", token_at(toks, statement.pos - 1).type))
         ELSE ParseStatementLoop(toks,
                Parsed(Assignment(Var(token_at(toks, statement.pos - 1)), statement.node),
                       statement.pos - 2))
    ELSE ParseStatementLoop(toks,
            Call(toks, parse_function(toks, statement.pos), statement.node))

parse_statement(toks, pos) == ParseStatementLoop(toks, parse_vector(toks, pos))

RECURSIVE ParseStatementListLoop(_, _, _)
\* the while loop of parse_statement_list after a statement was parsed,
\* with the statements before it
ParseStatementListLoop(toks, statement, statements) ==
    IF IsErr(statement) THEN statement
    ELSE IF token_at(toks, statement.pos).type # "DIAMOND"
    THEN Parsed(Statements(Append(statements, statement.node)), statement.pos)
    ELSE ParseStatementListLoop(toks, parse_statement(toks, statement.pos - 1),
                                Append(statements, statement.node))

parse_statement_list(toks, pos) ==
    ParseStatementListLoop(toks, parse_statement(toks, pos), <<>>)

\* the node a parse method returned, or the exception it raised
Node(parsed) == IF IsErr(parsed) THEN parsed ELSE parsed.node

parse_program(toks, pos) == Node(eat(toks, parse_statement_list(toks, pos), "EOF"))

\* Parser(tokenizer).parse() for the token list toks
parse(toks) == parse_program(toks.items, Len(toks.items) - 1)

----------------------------------------------------------------------------
(* moperators.py, doperators.py: a function value is a primitive of        *)
(* functions.py or the function an operator derives.                       *)

Primitive(name) == [k |-> "function", name |-> name]

commute(aalpha) == [k |-> "derived", operator |-> "commute", aalpha |-> aalpha]

diaeresis(aalpha) == [k |-> "derived", operator |-> "diaeresis", aalpha |-> aalpha]

jot(aalpha, oomega) ==
    [k |-> "derived", operator |-> "jot", aalpha |-> aalpha, oomega |-> oomega]

over(aalpha, oomega) ==
    [k |-> "derived", operator |-> "over", aalpha |-> aalpha, oomega |-> oomega]

\* a variant of the checks of diaeresis that compares the ranks only
DiaeresisCheck_RanksOnly(a, w) ==
    IF a # None /\ a.shape # <<>> /\ w.shape # <<>> /\ Len(a.shape) # Len(w.shape)
    THEN Raise("ValueError")
    ELSE None

\* the checks diaeresis makes on two arguments before it applies aalpha:
\* the exception raised, or None
DiaeresisCheck(a, w) ==
    IF a # None /\ a.shape # <<>> /\ w.shape # <<>>
    THEN IF Len(a.shape) # Len(w.shape) THEN Raise("ValueError")
         ELSE IF a.shape # w.shape THEN Raise("IndexError")
         ELSE None
    ELSE None

\* shape = alpha.shape or omega.shape, omega.shape for no alpha
DiaeresisShape(a, w) == IF a # None /\ a.shape # <<>> THEN a.shape ELSE w.shape

\* the data of diaeresis: [aalpha(omega=o, alpha=a) for o, a in
\* zip(omegas, alphas)] for the calls' values rs, data[0] for an empty shape
DiaeresisData(shape, rs) ==
    LET data == ListComp(rs)
    IN  IF IsErr(data) THEN data
        ELSE IF shape = <<>> THEN APLArray(shape, Subscript0(data))
        ELSE APLArray(shape, data)

RECURSIVE Apply(_, _, _)
\* function(alpha=a, omega=w) for a function value
Apply(function, a, w) ==
    IF function.k = "function" THEN Function(function.name, a, w)
    ELSE IF function.operator = "commute"
    THEN Apply(function.aalpha, w, IF a = None THEN w ELSE a)
    ELSE IF function.operator = "jot"
    THEN LET inner == Apply(function.oomega, None, w)
         IN  IF IsErr(inner) THEN inner ELSE Apply(function.aalpha, a, inner)
    ELSE IF function.operator = "over"
    THEN IF a = None
         THEN LET inner == Apply(function.oomega, None, w)
              IN  IF IsErr(inner) THEN inner ELSE Apply(function.aalpha, None, inner)
         ELSE LET left == Apply(function.oomega, None, a)
                  right == Apply(function.oomega, None, w)
              IN  IF IsErr(left) THEN left
                  ELSE IF IsErr(right) THEN right
                  ELSE Apply(function.aalpha, left, right)
    ELSE \* diaeresis
         IF IsErr(DiaeresisCheck(a, w)) THEN DiaeresisCheck(a, w)
         ELSE LET shape == DiaeresisShape(a, w)
                  l == Prod(shape)
                  omegas == IF w.shape # <<>> THEN w.data ELSE PyList(Repeat(<<w>>, l))
                  alphas == IF a = None THEN PyList(Repeat(<<None>>, l))
                            ELSE IF a.shape # <<>> THEN a.data
                            ELSE PyList(Repeat(<<a>>, l))
              IN  IF ~IsList(omegas) \/ ~IsList(alphas) THEN Raise("TypeError")
                  ELSE DiaeresisData(shape,
                        [i \in 1..Min(Len(omegas.items), Len(alphas.items)) |->
                            Apply(function.aalpha, alphas.items[i], omegas.items[i])])

----------------------------------------------------------------------------
(* rgspl.py: the Interpreter.  The Environment var_lookup is the sequence  *)
(* of its bindings [name, value] in the order the names were first bound.  *)

\* name in self.var_lookup
Bound(env, name) == \E i \in 1..Len(env) : env[i].name = name

\* self.var_lookup[name]
Lookup(env, name) ==
    IF Bound(env, name) THEN env[CHOOSE i \in 1..Len(env) : env[i].name = name].value
    ELSE Raise("KeyError")

\* a variant of the item assignment that keeps the value of a name that
\* is bound already
Bind_KeepsFirst(env, name, value) ==
    IF Bound(env, name) THEN env ELSE Append(env, [name |-> name, value |-> value])

\* self.var_lookup[name] = value
Bind(env, name, value) ==
    IF Bound(env, name)
    THEN [i \in 1..Len(env) |-> IF env[i].name = name THEN [name |-> name, value |-> value]
                                 ELSE env[i]]
    ELSE Append(env, [name |-> name, value |-> value])

\* what a visit leaves: the value returned (or the exception raised) and
\* the Environment
Visited(value, env) == [k |-> "visited", value |-> value, env |-> env]

\* token.type.lower() for the types of the functions and operators
Lower ==
    [ PLUS |-> "plus", MINUS |-> "minus", TIMES |-> "times", DIVIDE |-> "divide",
      CEILING |-> "ceiling", FLOOR |-> "floor", RIGHT_TACK |-> "right_tack",
      LEFT_TACK |-> "left_tack", IOTA |-> "iota", LESS |-> "less", LESSEQ |-> "lesseq",
      EQ |-> "eq", GREATEREQ |-> "greatereq", GREATER |-> "greater", NEQ |-> "neq",
      WITHOUT |-> "without", LSHOE |-> "lshoe", RHO |-> "rho", COMMUTE |-> "commute",
      DIAERESIS |-> "diaeresis", JOT |-> "jot", OVER |-> "over" ]

visit_S(scalar) == APLArray(<<>>, scalar.token.value)

visit_F(func) == Primitive(Lower[func.token.type])

RECURSIVE visit_function(_)
\* the visit of a function node: visit_F, visit_MOp, visit_DOp
visit_function(node) ==
    IF node.k = "F" THEN visit_F(node)
    ELSE IF node.k = "MOp"
    THEN IF Lower[node.token.type] = "commute" THEN commute(visit_function(node.child))
         ELSE diaeresis(visit_function(node.child))
    ELSE IF Lower[node.token.type] = "jot"
    THEN jot(visit_function(node.left), visit_function(node.right))
    ELSE over(visit_function(node.left), visit_function(node.right))

\* whether the visit x raised an exception
Raised(x) == IsErr(x.value)

RECURSIVE visit(_, _), VisitAll(_, _, _)

\* a variant of visit_Dyad that visits alpha before omega
visit_Dyad_AlphaFirst(dyad, env) ==
    LET alpha_ == visit(dyad.alpha, env)
        omega_ == visit(dyad.omega, alpha_.env)
    IN  IF Raised(alpha_) THEN alpha_
        ELSE IF Raised(omega_) THEN omega_
        ELSE Visited(Apply(visit_function(dyad.function), alpha_.value, omega_.value),
                     omega_.env)

\* a variant of visit_Statements that visits the children in the order the
\* parser stored them
visit_Statements_StoredOrder(statements, env) ==
    LET values == VisitAll(statements.children, env, <<>>)
    IN  IF Raised(values) THEN values
        ELSE Visited(values.value.items[Len(values.value.items)], values.env)

visit_V(array, env) ==
    LET scalars == VisitAll(array.children, env, <<>>)
    IN  IF Raised(scalars) THEN scalars
        ELSE Visited(APLArray(<<Len(scalars.value.items)>>, scalars.value), scalars.env)

\* a variant of visit_Var that raises NameError for a name without binding
visit_Var_RaisesNameError(var, env) ==
    Visited(IF Bound(env, var.token.value.v) THEN Lookup(env, var.token.value.v)
            ELSE Raise("NameError"), env)

visit_Var(var, env) == Visited(Lookup(env, var.token.value.v), env)

visit_Statements(statements, env) ==
    LET values == VisitAll(Reverse(statements.children), env, <<>>)
    IN  IF Raised(values) THEN values
        ELSE Visited(values.value.items[Len(values.value.items)], values.env)

\* a variant of visit_Assignment that binds the name to None when the
\* right-hand side raises
visit_Assignment_BindsOnError(assignment, env) ==
    LET value == visit(assignment.value, env)
    IN  IF Raised(value)
        THEN Visited(value.value, Bind(value.env, assignment.varname.token.value.v, None))
        ELSE Visited(value.value,
                     Bind(value.env, assignment.varname.token.value.v, value.value))

visit_Assignment(assignment, env) ==
    LET value == visit(assignment.value, env)
    IN  IF Raised(value) THEN value
        ELSE Visited(value.value,
                     Bind(value.env, assignment.varname.token.value.v, value.value))

visit_Monad(monad, env) ==
    LET omega_ == visit(monad.omega, env)
    IN  IF Raised(omega_) THEN omega_
        ELSE Visited(Apply(visit_function(monad.function), None, omega_.value), omega_.env)

visit_Dyad(dyad, env) ==
    LET omega_ == visit(dyad.omega, env)
        alpha_ == visit(dyad.alpha, omega_.env)
    IN  IF Raised(omega_) THEN omega_
        ELSE IF Raised(alpha_) THEN alpha_
        ELSE Visited(Apply(visit_function(dyad.function), alpha_.value, omega_.value),
                     alpha_.env)

\* [self.visit(child) for child in children] once the values are
\* computed: the list of the values, or the first exception raised
VisitAll(children, env, values) ==
    IF Len(children) = 0 THEN Visited(PyList(values), env)
    ELSE LET child == visit(Head(children), env)
         IN  IF Raised(child) THEN child
             ELSE VisitAll(Tail(children), child.env, Append(values, child.value))

\* NodeVisitor.visit for the nodes that return arrays
visit(node, env) ==
    CASE node.k = "S" -> Visited(visit_S(node), env)
      [] node.k = "V" -> visit_V(node, env)
      [] node.k = "Var" -> visit_Var(node, env)
      [] node.k = "Statements" -> visit_Statements(node, env)
      [] node.k = "Assignment" -> visit_Assignment(node, env)
      [] node.k = "Monad" -> visit_Monad(node, env)
      [] node.k = "Dyad" -> visit_Dyad(node, env)

----------------------------------------------------------------------------
(* Bounds of the model and the argument sets the runs draw from *)

\* simple scalars hold the integers 0..MaxLeaf
MaxLeaf == 2

\* flat vectors have at most MaxLen elements
MaxLen == 2

\* a run applies at most MaxCalls primitives, each to the previous result
MaxCalls == 2

\* all sequences over the set X of length at most n
SeqsUpTo(X, n) == UNION {[1..m -> X] : m \in 0..n}

\* a vector holding the arrays xs
Vec(xs) == APLArray(<<Len(xs)>>, PyList(xs))

\* a simple scalar holding the integer n
Sc(n) == S(PyInt(n))

\* a flat vector of the integers ns
IntVec(ns) == Vec([i \in 1..Len(ns) |-> Sc(ns[i])])

SimpleScalars == {Sc(n) : n \in 0..MaxLeaf}

FlatVectors == {Vec(xs) : xs \in SeqsUpTo(SimpleScalars, MaxLen)}

\* nested arguments: enclosed vectors, vectors holding vectors and
\* enclosed scalars, and a matrix
NestedArrays ==
    { S(IntVec(<<1, 2>>)),
      S(S(IntVec(<<1>>))),
      Vec(<<IntVec(<<1, 2>>), Sc(0)>>),
      Vec(<<IntVec(<<1, 2>>), IntVec(<<0, 1>>)>>),
      Vec(<<IntVec(<<1, 2, 0>>), IntVec(<<0, 1>>)>>),
      Vec(<<Sc(1), S(IntVec(<<1, 2>>))>>),
      Vec(<<Vec(<<Sc(1), IntVec(<<0, 1>>)>>)>>),
      APLArray(<<2, 2>>, PyList(<<Sc(0), Sc(1), Sc(2), Sc(1)>>)),
      APLArray(<<1, 2>>, PyList(<<Sc(1), Sc(2)>>)) }

PervadeArgs == SimpleScalars \cup FlatVectors \cup NestedArrays

----------------------------------------------------------------------------
(* Runs of the primitive function library: a primitive is called with    *)
(* alpha and omega, and its result may become the next call's omega.     *)

\* the values of the interpreter's variables while the library is run alone
NoInterpreter ==
    /\ code = <<>>
    /\ tokens = None
    /\ tree = None
    /\ var_lookup = <<>>

\* a primitive may be called: the run is between calls and may go on
CanCall == pc = "call" /\ Len(calls) < MaxCalls

\* the call of primitive f with the current arguments returns (or raises) r
Return(f, r) ==
    /\ fn' = f
    /\ calls' = Append(calls, f)
    /\ result' = r
    /\ pc' = "return"
    /\ UNCHANGED <<alpha, omega, alpha0, omega0, code, tokens, tree, var_lookup>>

\* the returned array becomes the right argument of a next call with the
\* same left argument
FeedRight ==
    /\ pc = "return"
    /\ IsAPLArray(result)
    /\ Len(calls) < MaxCalls
    /\ omega' = result
    /\ pc' = "call"
    /\ UNCHANGED <<fn, alpha, alpha0, omega0, calls, result, code, tokens, tree, var_lookup>>

\* the returned array becomes the argument of a next, monadic call
FeedMonadic ==
    /\ pc = "return"
    /\ IsAPLArray(result)
    /\ alpha # None
    /\ Len(calls) < MaxCalls
    /\ omega' = result
    /\ alpha' = None
    /\ pc' = "call"
    /\ UNCHANGED <<fn, alpha0, omega0, calls, result, code, tokens, tree, var_lookup>>

InitArgs(Alphas, Omegas) ==
    /\ pc = "call"
    /\ fn = ""
    /\ alpha \in Alphas
    /\ omega \in Omegas
    /\ alpha0 = alpha
    /\ omega0 = omega
    /\ calls = <<>>
    /\ result = None
    /\ NoInterpreter

(* Pervasive functions *)

InitPervade == InitArgs(PervadeArgs \cup {None}, PervadeArgs)

Pervade ==
    /\ CanCall
    /\ \E f \in PervasiveFuncs : Return(f, CallPervasive(f, alpha, omega))

NextPervade == Pervade

SpecPervade == InitPervade /\ [][NextPervade]_vars

(* Shape and reshape *)

\* the dimensions of a target shape run from -1 to MaxDim
MaxDim == 3

Dims == -1..MaxDim

\* target shapes: an integer scalar, or an integer vector of rank <= 2
RhoShapes == {Sc(d) : d \in Dims} \cup {IntVec(ds) : ds \in SeqsUpTo(Dims, 2)}

InitRho == InitArgs(RhoShapes, PervadeArgs)

Rho ==
    /\ CanCall
    /\ Return("rho", rho(alpha, omega))

NextRho == Rho \/ FeedMonadic

SpecRho == InitRho /\ [][NextRho]_vars

(* Encode and decode *)

\* radices run from 1 to MaxRadix
MaxRadix == 3

\* encoded numbers run from 0 to MaxN
MaxN == 8

\* radix vectors hold at most MaxRadices radices
MaxRadices == 2

RadixVectors == {IntVec(rs) : rs \in SeqsUpTo(1..MaxRadix, MaxRadices)}

\* left arguments of encode and decode: radix vectors, scalar radices and
\* matrices with the radices along the first axis
RadixArgs ==
    RadixVectors
    \cup {Sc(r) : r \in 1..(MaxRadix + 1)}
    \cup { IntVec(<<2, 3, 4>>), IntVec(<<0, 2>>),
           APLArray(<<2, 2>>, PyList(<<Sc(2), Sc(3), Sc(4), Sc(5)>>)),
           APLArray(<<2, 1>>, PyList(<<Sc(2), Sc(3)>>)) }

\* right arguments of encode and decode: numbers, vectors and matrices
NumberArgs ==
    {Sc(n) : n \in 0..MaxN}
    \cup {Sc(23), Sc(24), IntVec(<<23, 24>>), IntVec(<<5, 7, 12>>), IntVec(<<1, 0, 1>>), IntVec(<<>>)}
    \cup {IntVec(ns) : ns \in [1..2 -> 0..2]}
    \cup { APLArray(<<2, 2>>, PyList(<<Sc(1), Sc(2), Sc(3), Sc(4)>>)),
           APLArray(<<1, 2>>, PyList(<<Sc(5), Sc(6)>>)),
           APLArray(<<2, 1>>, PyList(<<Sc(5), Sc(6)>>)) }

InitRadix == InitArgs(RadixArgs, NumberArgs)

Encode ==
    /\ CanCall
    /\ Return("encode", encode(alpha, omega))

Decode ==
    /\ CanCall
    /\ Return("decode", decode(alpha, omega))

NextRadix == Encode \/ Decode \/ FeedRight

SpecRadix == InitRadix /\ [][NextRadix]_vars

(* Without and enclose *)

\* the arguments of without and enclose: scalars, vectors (flat and
\* nested) and matrices
StructArgs ==
    PervadeArgs
    \cup { IntVec(<<3, 1, 4, 1, 5>>), IntVec(<<1, 5>>), Sc(5),
           APLArray(<<3, 2>>, PyList(<<Sc(0), Sc(1), Sc(2), Sc(3), Sc(4), Sc(5)>>)),
           APLArray(<<2, 2>>, PyList(<<Sc(0), Sc(1), Sc(0), Sc(1)>>)) }

InitStruct == InitArgs(StructArgs \cup {None}, StructArgs)

Without ==
    /\ CanCall
    /\ Return("without", without(alpha, omega))

Enclose ==
    /\ CanCall
    /\ Return("lshoe", lshoe(alpha, omega))

NextStruct == Without \/ Enclose \/ FeedRight

SpecStruct == InitStruct /\ [][NextStruct]_vars

----------------------------------------------------------------------------
(* Runs of the interpreter: a program is tokenized, parsed and evaluated   *)
(* in a new Environment.                                                   *)

\* the characters short programs are made of; "?" is no character of APL
Alphabet ==
    { "0", "1", "a", " ", HighMinus, "+", RightTack, "~", LeftShoe, LeftArrow, "(", ")",
      Diamond, "?" }

\* short programs have at most MaxCode characters
MaxCode == 3

\* every text of at most MaxCode characters, the empty text too
ShortPrograms == SeqsUpTo(Alphabet, MaxCode)

RECURSIVE StrandText(_)
\* the text of a strand of the one-digit numbers ns: "1 2 3"
StrandText(ns) ==
    IF Len(ns) = 1 THEN <<DigitChars[ns[1] + 1]>>
    ELSE <<DigitChars[ns[1] + 1], " ">> \o StrandText(Tail(ns))

\* the strands of n numbers from 0..MaxLeaf
Strands(n) == {StrandText(ns) : ns \in [1..n -> 0..MaxLeaf]}

\* A + B for strands A and B of as many numbers, at least two
SumPrograms ==
    UNION { {A \o <<" ", "+", " ">> \o B : A \in Strands(n), B \in Strands(n)} : n \in 2..MaxLen }
    \cup {StrandText(<<1, 2, 3>>) \o <<" ", "+", " ">> \o StrandText(<<3, 2, 1>>)}

\* the functions called in the programs of two assignments
DyadGlyphs == {"+", RightTack, LeftTack, "~"}

\* the text (a<-X) f (name<-Y)
AssignText(X, f, name, Y) ==
    <<"(", "a", LeftArrow>> \o X \o <<")", " ", f, " ", "(", name, LeftArrow>> \o Y \o <<")">>

\* (a<-X) f (a<-Y) and (a<-X) f (b<-Y) for literals X and Y of at most
\* MaxLen numbers
AssignPrograms ==
    LET Literals == UNION {Strands(n) : n \in 1..MaxLen}
    IN  { AssignText(X, f, name, Y) :
            X \in Literals, Y \in Literals, f \in DyadGlyphs, name \in {"a", "b"} }

\* programs with reshape, operators, comments and several statements
NamedPrograms ==
    { <<"5", Rho_, "1", " ", "2", " ", "3">>,
      <<Rho_, "1", " ", "2", " ", "3">>,
      <<"3", " ", "1", " ", "4", " ", "1", " ", "5", " ", "~", " ", "1", " ", "5">>,
      <<"3", " ", "1", " ", "4", " ", "~", " ", "4">>,
      <<"a", LeftArrow, "1", " ", "2", " ", Diamond, " ", "a">>,
      <<"a", LeftArrow, "1", Newline, "b", LeftArrow, "a", " ", "a", Diamond, "b">>,
      <<"a", LeftArrow, "b", Diamond, "b", LeftArrow, "1">>,
      <<"1", " ", "2", " ", Lamp, " ", "+", "?", Newline, LeftShoe, "3", " ", "4">>,
      <<"(", "1", " ", "2", ")", "(", "3", " ", "4", ")", " ", "2">>,
      <<"(", "a", LeftArrow, "1", ")", " ", "(", "a", LeftArrow, "2", ")">>,
      <<"1", " ", "2", "=", "1", " ", "3">>,
      <<"1", " ", "2", "<", "1", " ", "2", " ", "3">>,
      <<"1", "-", "1">>,
      <<"2", Times, "1", " ", "2">>,
      <<"+", TildeDiaeresis, "1", " ", "2">>,
      <<"1", " ", "2", RightTack, TildeDiaeresis, "3", " ", "4">>,
      <<LeftShoe, Diaeresis, "1", " ", "2">>,
      <<"1", " ", "2", " ", LeftTack, Diaeresis, " ", "3", " ", "4">>,
      <<"1", " ", "2", " ", LeftTack, Diaeresis, " ", "3", " ", "4", " ", "5">>,
      <<"1", " ", "2", " ", RightTack, Diaeresis, " ", "(", "1", " ", "2", ")", "(", "3", " ", "4", ")">>,
      <<"9", RightTack, Diaeresis, "1", " ", "2">>,
      <<LeftShoe, Jot, LeftShoe, "1", " ", "2">>,
      <<"1", " ", "2", LeftTack, Jot, LeftShoe, "3", " ", "4">>,
      <<LeftShoe, CircleDiaeresis, LeftShoe, "1", " ", "2">>,
      <<"1", " ", "2", RightTack, CircleDiaeresis, LeftShoe, "3", " ", "4">>,
      <<"(", LeftShoe, ")", "(", LeftShoe, ")", " ", "1", " ", "2">>,
      <<"(", "+", Jot, LeftShoe, ")", TildeDiaeresis, "1", " ", "2">>,
      <<"a", "1", LeftArrow, HighMinus, "1", "2", " ", Diamond, "a", "1", " ", "a", "1">> }

\* the statements the statement lists are made of
StatementTexts ==
    { <<"a", LeftArrow, "1">>, <<"a", LeftArrow, "0", " ", "1">>, <<"a">>,
      <<"b", LeftArrow, "a">>, <<"a", "+", "b">>, <<"b">>, <<"b", LeftArrow, "b">> }

\* statement lists have at most MaxStatements statements
MaxStatements == 3

RECURSIVE JoinStatements(_)
\* the text of the statements ss with a diamond between them
JoinStatements(ss) ==
    IF Len(ss) = 1 THEN ss[1] ELSE ss[1] \o <<Diamond>> \o JoinStatements(Tail(ss))

\* the lists of two to MaxStatements statements
StatementPrograms ==
    UNION { {JoinStatements(ss) : ss \in [1..n -> StatementTexts]} : n \in 2..MaxStatements }

\* the texts of real numbers: a sign or none, digits or none, and a
\* decimal part or none
RealTexts ==
    { sign \o whole \o dec :
        sign \in {<<>>, <<HighMinus>>},
        whole \in {<<>>, <<"0">>, <<"1">>, <<"1", "0">>},
        dec \in {<<>>, <<".">>, <<".", "0">>, <<".", "5">>, <<".", "0", "5">>,
                 <<".", "5", "0">>} }

\* the numeric literals: a real number, or two of them around a J
NumeralPrograms ==
    (RealTexts \ {<<>>})
        \cup {re \o <<"J">> \o im : re \in RealTexts \ {<<>>}, im \in RealTexts}

\* an array atom: a number or a name, or a run of atoms in parentheses
Leaf(text) == [k |-> "leaf", text |-> text]

Paren(run) == [k |-> "paren", run |-> run]

\* the runs of one or two numbers and names
LeafRuns == SeqsUpTo({Leaf("1"), Leaf("a")}, 2) \ {<<>>}

\* the atoms: numbers, names, runs in parentheses and two runs in two
\* pairs of parentheses
Atoms ==
    {Leaf("1"), Leaf("a")} \cup {Paren(run) : run \in LeafRuns}
        \cup {Paren(<<Paren(run)>>) : run \in {<<Leaf("1")>>, <<Leaf("1"), Leaf("a")>>}}

\* the runs of one to MaxLen atoms
Runs == SeqsUpTo(Atoms, MaxLen) \ {<<>>}

RECURSIVE RunText(_)
\* the text of a run: its atoms with a blank between them
RunText(run) ==
    LET AtomText(atom) ==
            IF atom.k = "leaf" THEN <<atom.text>>
            ELSE <<"(">> \o RunText(atom.run) \o <<")">>
    IN  IF Len(run) = 1 THEN AtomText(run[1])
        ELSE AtomText(run[1]) \o <<" ">> \o RunText(Tail(run))

StrandPrograms == {RunText(run) : run \in Runs}

\* a primitive function, in parentheses or not
Glyph(glyph, parens) == [k |-> "glyph", glyph |-> glyph, parens |-> parens]

GlyphText(f) == IF f.parens THEN <<"(", f.glyph, ")">> ELSE <<f.glyph>>

CallFunctions == {Glyph(glyph, parens) : glyph \in {"+", "-"}, parens \in BOOLEAN}

\* what stands on the left of the function of a call: nothing, an array
\* or a function
NoLeft == [k |-> "none"]

ArrayLeft(run) == [k |-> "array", run |-> run]

FunctionLeft(f) == [k |-> "function", f |-> f]

CallLefts ==
    {NoLeft}
        \cup { ArrayLeft(run) :
                 run \in { <<Leaf("1")>>, <<Leaf("a")>>, <<Leaf("1"), Leaf("a")>>,
                           <<Paren(<<Leaf("1"), Leaf("a")>>)>> } }
        \cup {FunctionLeft(f) : f \in CallFunctions}

CallRights == {<<Leaf("1")>>, <<Leaf("1"), Leaf("a")>>}

\* the text of a call: the left, the function, a blank and the array
CallText(left, f, right) ==
    (CASE left.k = "none" -> <<>>
       [] left.k = "array" -> RunText(left.run)
       [] left.k = "function" -> GlyphText(left.f))
        \o GlyphText(f) \o <<" ">> \o RunText(right)

CallPrograms ==
    {CallText(left, f, right) : left \in CallLefts, f \in CallFunctions, right \in CallRights}

\* derived functions have at most MaxOperators operators
MaxOperators == 2

RECURSIVE DerivedTexts(_)
\* the texts of the functions derived with n operators: a function with a
\* monadic operator after it, or with a dyadic operator and a primitive
\* function after it
DerivedTexts(n) ==
    IF n = 0 THEN {<<"+">>, <<LeftShoe>>}
    ELSE {e \o <<m>> : e \in DerivedTexts(n - 1), m \in {TildeDiaeresis, Diaeresis}}
            \cup { e \o <<d, f>> :
                     e \in DerivedTexts(n - 1), d \in {Jot, CircleDiaeresis},
                     f \in {"+", LeftShoe} }

\* the derived functions called on the strand 1 a
OperatorPrograms ==
    UNION { {e \o <<" ", "1", " ", "a">> : e \in DerivedTexts(n)} : n \in 1..MaxOperators }

Programs ==
    ShortPrograms \cup SumPrograms \cup AssignPrograms \cup NamedPrograms
        \cup StatementPrograms \cup NumeralPrograms \cup StrandPrograms
        \cup CallPrograms \cup OperatorPrograms

\* the values of the library's variables while the interpreter is run
NoLibrary ==
    /\ fn = ""
    /\ alpha = None
    /\ omega = None
    /\ alpha0 = None
    /\ omega0 = None
    /\ calls = <<>>

Init ==
    /\ pc = "tokenize"
    /\ code \in Programs
    /\ tokens = None
    /\ tree = None
    /\ var_lookup = <<>>
    /\ result = None
    /\ NoLibrary

\* Parser.__init__: self.tokens = tokenizer.tokenize()
Tokenize ==
    /\ pc = "tokenize"
    /\ \E r \in {tokenize(code)} :
          IF IsErr(r)
          THEN result' = r /\ pc' = "done" /\ UNCHANGED tokens
          ELSE tokens' = r /\ pc' = "parse" /\ UNCHANGED result
    /\ UNCHANGED <<fn, alpha, omega, alpha0, omega0, calls, code, tree, var_lookup>>

\* Interpreter.interpret: tree = self.parser.parse()
Parse ==
    /\ pc = "parse"
    /\ \E r \in {parse(tokens)} :
          IF IsErr(r)
          THEN result' = r /\ pc' = "done" /\ UNCHANGED tree
          ELSE tree' = r /\ pc' = "interpret" /\ UNCHANGED result
    /\ UNCHANGED <<fn, alpha, omega, alpha0, omega0, calls, code, tokens, var_lookup>>

\* Interpreter.interpret: return self.visit(tree)
Interpret ==
    /\ pc = "interpret"
    /\ \E r \in {visit(tree, var_lookup)} :
          result' = r.value /\ var_lookup' = r.env
    /\ pc' = "done"
    /\ UNCHANGED <<fn, alpha, omega, alpha0, omega0, calls, code, tokens, tree>>

Next == Tokenize \/ Parse \/ Interpret

Spec == Init /\ [][Next]_vars

----------------------------------------------------------------------------
(* The data of the arrays the evaluator produces *)

RECURSIVE DataMatchesShape(_)
\* an array's data is a list of as many elements as the product of its
\* shape, and so is the data of every array in it
DataMatchesShape(x) ==
    IsAPLArray(x) =>
        /\ IsList(x.data)
        /\ Len(x.data.items) = Prod(x.shape)
        /\ \A i \in 1..Len(x.data.items) : DataMatchesShape(x.data.items[i])

\* C1: every array the evaluator produces, the value of a program and the
\* values it binds, has data that is a sequence of as many elements as the
\* product of its shape, and so has each array in it
C1_DataLengthIsProductOfShape ==
    pc = "done" =>
        /\ DataMatchesShape(result)
        /\ \A i \in 1..Len(var_lookup) : DataMatchesShape(var_lookup[i].value)

\* the text A + B for the strands of the numbers A and B
SumText(A, B) == StrandText(A) \o <<" ", "+", " ">> \o StrandText(B)

\* the scalar of the integer v, with v as its data or as the one element
\* of its data
ScalarsOf(v) == {S(PyInt(v)), APLArray(<<>>, PyInt(v))}

\* the array of shape [n] whose i-th element is the scalar A[i]+B[i]
IsSumOf(r, A, B) ==
    /\ IsAPLArray(r)
    /\ r.shape = <<Len(A)>>
    /\ IsList(r.data)
    /\ Len(r.data.items) = Len(A)
    /\ \A i \in 1..Len(A) : r.data.items[i] \in ScalarsOf(A[i] + B[i])

\* C2: the program A + B for stranded vectors A and B of n integer literals
\* each yields the array of shape [n] whose i-th element is the scalar
\* A[i]+B[i]; 1 2 3 + 3 2 1 yields shape [3] with data 4 4 4
C2_SumOfStrands ==
    /\ \A n \in 2..MaxLen : \A A \in [1..n -> 0..MaxLeaf], B \in [1..n -> 0..MaxLeaf] :
          (pc = "done" /\ code = SumText(A, B)) => IsSumOf(result, A, B)
    /\ (pc = "done" /\ code = SumText(<<1, 2, 3>>, <<3, 2, 1>>))
          => IsSumOf(result, <<1, 2, 3>>, <<3, 2, 1>>)

----------------------------------------------------------------------------
(* Pervasion: broadcast of a scalar, and mismatched shapes *)

\* a is a well-formed simple scalar
WellFormedSimple(a) == IsAPLArray(a) /\ is_simple_scalar(a)

RECURSIVE MapLeaves(_, _, _, _)
\* the array A with every leaf x replaced by f(s, x) (left TRUE) or by
\* f(x, s) (left FALSE), keeping the structure of A at every level
MapLeaves(f, s, A, left) ==
    IF A.shape # <<>> \/ IsAPLArray(A.data.items[1])
    THEN APLArray(A.shape,
            PyList([i \in 1..Len(A.data.items) |-> MapLeaves(f, s, A.data.items[i], left)]))
    ELSE S(IF left THEN ScalarFunc(f, s, A.data.items[1])
                   ELSE ScalarFunc(f, A.data.items[1], s))

\* the arithmetic and comparison functions, which accept every integer leaf
TotalFuncs == {"plus", "minus", "times", "less", "eq"}

\* C3 (as claimed): for a simple scalar s and an array A of non-empty shape,
\* f(s, A) and f(A, s) have A's shape and hold f of s and the leaf of A at
\* every position, recursively into the nested elements of A.
C3_BroadcastLaw ==
    (pc = "return" /\ fn \in TotalFuncs /\ Len(calls) = 1 /\ alpha # None)
    => /\ (WellFormedSimple(alpha) /\ omega.shape # <<>>)
            => result = MapLeaves(fn, alpha.data.items[1], omega, TRUE)
       /\ (WellFormedSimple(omega) /\ alpha.shape # <<>>)
            => result = MapLeaves(fn, omega.data.items[1], alpha, FALSE)

\* both arguments have non-empty shapes and the shapes differ
OuterMismatch(a, w) == a.shape # <<>> /\ w.shape # <<>> /\ a.shape # w.shape

\* the shapes agree, and the first pair of elements whose pervasion raises
\* is a pair of arrays of non-empty, different shapes
NestedMismatch(f, a, w) ==
    /\ a.shape # <<>> /\ a.shape = w.shape
    /\ \E i \in 1..Len(a.data.items) :
          /\ OuterMismatch(a.data.items[i], w.data.items[i])
          /\ \A j \in 1..(i-1) :
                ~IsErr(pervasive_func(f, a.data.items[j], w.data.items[j]))

C4_WitnessOuter ==
    /\ pc = "return" /\ fn = "and_" /\ alpha # None
    /\ OuterMismatch(alpha, omega)
    /\ result = Raise("IndexError")

----------------------------------------------------------------------------
(* Reshape: cyclic fill *)

\* the dimensions a target shape asks for: the integer of a scalar, the
\* integers of a vector
TargetDims(a) ==
    IF a.shape = <<>> THEN <<a.data.items[1].v>>
    ELSE [i \in 1..Len(a.data.items) |-> a.data.items[i].data.items[1].v]

\* the number of elements a list of dimensions holds
Volume(dims) == IF Prod(dims) > 0 THEN Prod(dims) ELSE 0

\* a reshape of omega0 by alpha0 has returned
Reshaped == calls = <<"rho">> /\ pc = "return" /\ Prod(omega0.shape) > 0

\* the shape of that reshape has been taken
ShapeOfReshaped == calls = <<"rho", "rho">> /\ pc = "return" /\ Prod(omega0.shape) > 0

\* C5 (as claimed): the reshape of a source A with n = product(A.shape) > 0
\* by a target shape S has the shape S and data[i] = A.data[i mod n] for
\* every i < product(S), and the shape of the result is S (its dimensions,
\* as a vector).
C5_CyclicFillOfData ==
    /\ Reshaped =>
          /\ IsAPLArray(result)
          /\ result.shape = TargetDims(alpha0)
          /\ Len(result.data.items) = Volume(result.shape)
          /\ \A i \in 0..(Volume(result.shape) - 1) :
                result.data.items[i + 1]
                    = omega0.data.items[(i % Prod(omega0.shape)) + 1]
    /\ ShapeOfReshaped => result = IntVec(TargetDims(alpha0))

\* the elements a reshape draws from: the elements of an array of non-empty
\* shape, the array itself when it is a scalar
ReshapeSource(A) == IF A.shape = <<>> THEN <<A>> ELSE A.data.items

\* C5 (amended): the reshape of a source A with n = product(A.shape) > 0 by
\* a target shape S has the shape S and data[i] = E[i mod n] for every
\* i < product(S), where E is A.data when A has a non-empty shape and the
\* one-element list [A] when A is a scalar; the data is empty when
\* product(S) <= 0, and the shape of the result is the vector of the
\* dimensions of S.
C5_CyclicFillOfElements ==
    /\ Reshaped =>
          /\ IsAPLArray(result)
          /\ result.shape = TargetDims(alpha0)
          /\ Len(result.data.items) = Volume(result.shape)
          /\ \A i \in 0..(Volume(result.shape) - 1) :
                result.data.items[i + 1]
                    = ReshapeSource(omega0)[(i % Prod(omega0.shape)) + 1]
    /\ ShapeOfReshaped => result = IntVec(TargetDims(alpha0))

\* C5 witness: a two-element vector was reshaped to three elements, so the
\* fill wrapped around, and the shape of the result was taken.
C5_Witness ==
    /\ ShapeOfReshaped
    /\ alpha0 = Sc(3)
    /\ omega0 = IntVec(<<1, 2>>)
    /\ omega = IntVec(<<1, 2, 1>>)
    /\ result = IntVec(<<3>>)

----------------------------------------------------------------------------
(* Encode and decode *)

\* a is a vector of positive integers
PositiveRadices(a) ==
    /\ Len(a.shape) = 1
    /\ \A i \in 1..Len(a.data.items) :
          WellFormedSimple(a.data.items[i]) /\ a.data.items[i].data.items[1].v > 0

\* a is the simple scalar of an integer n with 0 <= n < product(R)
InRange(a, R) ==
    /\ WellFormedSimple(a)
    /\ a.data.items[1].v >= 0
    /\ a.data.items[1].v < Prod(TargetDims(R))

\* C6: for a radix vector R of positive integers and an integer n with
\* 0 <= n < product(R), decode(R, encode(R, n)) is the simple scalar n.
C6_DecodeOfEncode ==
    (pc = "return" /\ calls = <<"encode", "decode">>
        /\ PositiveRadices(alpha) /\ InRange(omega0, alpha))
    => result = omega0

\* C6 witness: 23 was encoded in the radices 2 3 4 as 1 2 3 and decoded.
C6_Witness ==
    /\ pc = "return" /\ calls = <<"encode", "decode">>
    /\ alpha = IntVec(<<2, 3, 4>>)
    /\ omega0 = Sc(23)
    /\ omega = IntVec(<<1, 2, 3>>)
    /\ result = Sc(23)

\* the integers at the positions start, start+step, ... of a list of
\* simple scalars
LeafColumn(xs, start, step) ==
    LET column == SliceFrom(xs, start, step)
    IN  [t \in 1..Len(column) |-> column[t].data.items[1].v]

RECURSIVE MixedRadix(_, _)
\* the digits of n in the mixed radix rs, most significant first, for
\* 0 <= n < product(rs)
MixedRadix(rs, n) ==
    IF Len(rs) = 0 THEN <<>>
    ELSE <<n \div Prod(Tail(rs))>> \o MixedRadix(Tail(rs), n % Prod(Tail(rs)))

\* every element of a is a simple scalar, of a positive integer if positive
SimpleArray(a, positive) ==
    \A i \in 1..Len(a.data.items) :
        /\ WellFormedSimple(a.data.items[i])
        /\ a.data.items[i].data.items[1].v >= (IF positive THEN 1 ELSE 0)

\* C7 (as claimed): encode(alpha, omega) has the shape alpha.shape +
\* omega.shape, and for every radix vector along alpha's first axis and
\* every scalar w of omega, the vector along the result's first axis at the
\* matching position holds the mixed-radix digits, most significant first,
\* of w modulo the product of the radices.
C7_EncodeDigitVectors ==
    (pc = "return" /\ calls = <<"encode">>
        /\ SimpleArray(at_least_vector(alpha), TRUE) /\ SimpleArray(omega, FALSE))
    => LET a == at_least_vector(alpha)
           dist == Prod(Tail(a.shape))
           nw == Prod(omega.shape)
       IN  /\ IsAPLArray(result)
           /\ result.shape = alpha.shape \o omega.shape
           /\ Len(result.data.items) = Prod(result.shape)
           /\ \A i \in 0..(dist - 1) : \A j \in 0..(nw - 1) :
                 LET radices == LeafColumn(a.data.items, i, dist)
                     w == omega.data.items[j + 1].data.items[1].v
                 IN  LeafColumn(result.data.items, i * nw + j, dist * nw)
                        = MixedRadix(radices, w % Prod(radices))

----------------------------------------------------------------------------
(* Without *)

\* the major cells of a, as arrays
Cells(a) == major_cells(a).data.items

\* the cells of w of the rank of a's major cells; the one cell of rank 0
\* of a simple scalar is the scalar
Needles(a, w) ==
    IF WellFormedSimple(w) THEN <<w>> ELSE n_cells(w, Len(a.shape) - 1).data.items

RECURSIVE Surviving(_, _)
\* the cells that equal no needle, in their order
Surviving(cells, needles) ==
    IF Len(cells) = 0 THEN <<>>
    ELSE (IF \E k \in 1..Len(needles) : cells[1] = needles[k] THEN <<>> ELSE <<cells[1]>>)
         \o Surviving(Tail(cells), needles)

\* a is a well-formed array: its data is a list of product(shape) arrays,
\* each a simple scalar of an integer or a well-formed array
RECURSIVE WellFormed(_)
WellFormed(a) ==
    /\ IsAPLArray(a)
    /\ IsList(a.data)
    /\ Len(a.data.items) = Prod(a.shape)
    /\ \A i \in 1..Len(a.data.items) :
          \/ a.shape = <<>> /\ IsInt(a.data.items[i])
          \/ WellFormed(a.data.items[i])

\* C8 (as claimed): alpha ~ omega returns the major cells of alpha, in
\* their order, that equal no cell of omega of the same rank; its shape is
\* the count of the surviving cells followed by alpha.shape[1:], and its
\* data has product(shape) elements.
C8_WithoutMajorCells ==
    (pc = "return" /\ calls = <<"without">> /\ alpha # None
        /\ Len(alpha.shape) >= 1 /\ Len(omega.shape) >= Len(alpha.shape) - 1)
    => /\ IsAPLArray(result)
       /\ Cells(result) = Surviving(Cells(alpha), Needles(alpha, omega))
       /\ result.shape = <<Len(Surviving(Cells(alpha), Needles(alpha, omega)))>>
                            \o Tail(alpha.shape)
       /\ Len(result.data.items) = Prod(result.shape)

----------------------------------------------------------------------------
(* Enclose *)

RECURSIVE Enclosed(_, _)
\* the array a wrapped in n scalars
Enclosed(a, n) == IF n = 0 THEN a ELSE APLArray(<<>>, PyList(<<Enclosed(a, n - 1)>>))

\* every call so far was an enclose
OnlyEnclosed == \A i \in 1..Len(calls) : calls[i] = "lshoe"

\* C9: enclose of a simple scalar returns the scalar, so any number of
\* encloses of a simple scalar is the scalar; enclose of any other array
\* returns a scalar whose one element is the array, and each further
\* enclose adds a level.
C9_Enclose ==
    (pc = "return" /\ OnlyEnclosed /\ alpha = None)
    => /\ WellFormedSimple(omega0) => result = omega0
       /\ ~WellFormedSimple(omega0) => result = Enclosed(omega0, Len(calls))

\* C9 witness: a vector was enclosed twice.
C9_Witness ==
    /\ pc = "return" /\ calls = <<"lshoe", "lshoe">> /\ alpha = None
    /\ omega0 = IntVec(<<1, 2>>)
    /\ result = S(S(IntVec(<<1, 2>>)))

\* C9 witness: a simple scalar was enclosed twice.
C9_WitnessScalar ==
    /\ pc = "return" /\ calls = <<"lshoe", "lshoe">> /\ alpha = None
    /\ omega0 = Sc(1)
    /\ result = Sc(1)

----------------------------------------------------------------------------
(* The order a dyadic call evaluates its arguments in *)

\* node is a literal: a number, or a strand of numbers
IsLiteral(node) ==
    \/ node.k = "S"
    \/ node.k = "V" /\ \A i \in 1..Len(node.children) : node.children[i].k = "S"

\* the array a literal stands for: the scalar of a number, the vector of
\* the scalars of a strand's numbers
LiteralValue(node) ==
    IF node.k = "S" THEN APLArray(<<>>, node.token.value)
    ELSE APLArray(<<Len(node.children)>>,
                  PyList([i \in 1..Len(node.children) |->
                            APLArray(<<>>, node.children[i].token.value)]))

\* a program of one dyadic call whose arguments both assign a literal
TwoAssignments(t) ==
    /\ t # None
    /\ Len(t.children) = 1
    /\ t.children[1].k = "Dyad"
    /\ t.children[1].alpha.k = "Assignment"
    /\ t.children[1].omega.k = "Assignment"
    /\ IsLiteral(t.children[1].alpha.value)
    /\ IsLiteral(t.children[1].omega.value)

\* the bindings in the order the code (left <- X) f (right <- Y) makes them
\* when Y is assigned first
RightThenLeft(left, X, right, Y) ==
    IF left = right THEN <<[name |-> left, value |-> X]>>
    ELSE <<[name |-> right, value |-> Y], [name |-> left, value |-> X]>>

\* C10: a dyadic call evaluates its right argument before its left one:
\* after (a<-X) f (a<-Y) the Environment binds a to X, the value the left
\* argument assigned, and after (a<-X) f (b<-Y) it holds b, bound first,
\* and then a
C10_RightBeforeLeft ==
    (pc = "done" /\ TwoAssignments(tree)) =>
        var_lookup = RightThenLeft(tree.children[1].alpha.varname.token.value.v,
                                   LiteralValue(tree.children[1].alpha.value),
                                   tree.children[1].omega.varname.token.value.v,
                                   LiteralValue(tree.children[1].omega.value))

\* (a<-1) + (a<-2) was evaluated and a is bound to 1
C10_Witness ==
    /\ pc = "done"
    /\ code = AssignText(<<"1">>, "+", "a", <<"2">>)
    /\ TwoAssignments(tree)
    /\ Lookup(var_lookup, "a") = APLArray(<<>>, PyInt(1))

----------------------------------------------------------------------------
(* Statement lists *)

\* whether the text holds the character c
HasChar(text, c) == \E i \in 1..Len(text) : text[i] = c

RECURSIVE SplitStatements(_, _, _)
\* the statements of a text without comments, in reading order: the
\* pieces between its separators
SplitStatements(text, piece, pieces) ==
    IF Len(text) = 0 THEN Append(pieces, piece)
    ELSE IF Head(text) \in {Diamond, Newline}
    THEN SplitStatements(Tail(text), <<>>, Append(pieces, piece))
    ELSE SplitStatements(Tail(text), Append(piece, Head(text)), pieces)

\* one statement run alone in the Environment env
RunStatement(text, env) == visit(parse(tokenize(text)), env)

RECURSIVE RunInSourceOrder(_, _, _)
\* the statements run one after the other, the leftmost first, each in the
\* Environment the one before left: the value of the last one run or the
\* first exception raised, and the Environment
RunInSourceOrder(texts, env, last) ==
    IF Len(texts) = 0 THEN <<last, env>>
    ELSE LET r == RunStatement(Head(texts), env)
         IN  IF Raised(r) THEN <<r.value, r.env>>
             ELSE RunInSourceOrder(Tail(texts), r.env, r.value)

\* C11: a statement list that parses is evaluated statement by statement
\* from the leftmost to the rightmost, every statement in the Environment
\* the earlier ones left, and its value is the value of the rightmost
\* statement
C11_StatementsInSourceOrder ==
    (pc = "done" /\ tree # None /\ ~HasChar(code, Lamp)
        /\ (HasChar(code, Diamond) \/ HasChar(code, Newline)))
    => <<result, var_lookup>> = RunInSourceOrder(SplitStatements(code, <<>>, <<>>), <<>>, None)

\* a list of three statements where the later ones read what the earlier
\* ones assigned has been evaluated to the value of the last one
C11_Witness ==
    /\ pc = "done"
    /\ code = JoinStatements(<<<<"a", LeftArrow, "0", " ", "1">>, <<"b", LeftArrow, "a">>, <<"b">>>>)
    /\ Lookup(var_lookup, "b") = Lookup(var_lookup, "a")
    /\ result = Lookup(var_lookup, "a")
    /\ IsAPLArray(result)

----------------------------------------------------------------------------
(* The Environment after an evaluation *)

RECURSIVE Writes(_, _), WritesAll(_, _)

\* the assignments completed while node is evaluated in the Environment
\* env, in the order they complete: the name, the value of the right-hand
\* side and the value the Assignment node yielded
Writes(node, env) ==
    CASE node.k \in {"S", "Var"} -> <<>>
      [] node.k = "V" -> WritesAll(node.children, env)
      [] node.k = "Statements" -> WritesAll(Reverse(node.children), env)
      [] node.k = "Monad" -> Writes(node.omega, env)
      [] node.k = "Dyad" ->
            Writes(node.omega, env)
                \o (IF Raised(visit(node.omega, env)) THEN <<>>
                    ELSE Writes(node.alpha, visit(node.omega, env).env))
      [] node.k = "Assignment" ->
            Writes(node.value, env)
                \o (IF Raised(visit(node.value, env)) THEN <<>>
                    ELSE << [name |-> node.varname.token.value.v,
                             value |-> visit(node.value, env).value,
                             yielded |-> visit(node, env).value] >>)

\* the assignments completed while the nodes are evaluated one after the
\* other, up to the first that raises
WritesAll(nodes, env) ==
    IF Len(nodes) = 0 THEN <<>>
    ELSE Writes(Head(nodes), env)
            \o (IF Raised(visit(Head(nodes), env)) THEN <<>>
                ELSE WritesAll(Tail(nodes), visit(Head(nodes), env).env))

\* the value of the last of the writes to name
LastWrite(writes, name) ==
    writes[CHOOSE i \in 1..Len(writes) :
              /\ writes[i].name = name
              /\ \A j \in (i + 1)..Len(writes) : writes[j].name # name].value

\* the Environment env, empty before, holds exactly the names written,
\* each once and with the value of the last write to it
HoldsExactly(env, writes) ==
    /\ \A i \in 1..Len(env) :
          /\ \E j \in 1..Len(writes) : writes[j].name = env[i].name
          /\ env[i].value = LastWrite(writes, env[i].name)
          /\ \A j \in 1..Len(env) : env[j].name = env[i].name => j = i
    /\ \A j \in 1..Len(writes) : Bound(env, writes[j].name)

\* C12: after an evaluation that completes, the Environment, empty before,
\* binds exactly the names of the Assignment nodes evaluated, each to the
\* value of the last assignment to it evaluated, and every Assignment node
\* yielded the value it bound
C12_OnlyAssignmentsBind ==
    (pc = "done" /\ tree # None /\ ~IsErr(result))
    => LET writes == Writes(tree, <<>>)
       IN  /\ HoldsExactly(var_lookup, writes)
           /\ \A j \in 1..Len(writes) : writes[j].yielded = writes[j].value

\* a program that assigns twice to one name has been evaluated, and the
\* name holds the value assigned last, which is not the one assigned first
C12_Witness ==
    /\ pc = "done"
    /\ tree # None
    /\ ~IsErr(result)
    /\ Len(Writes(tree, <<>>)) = 2
    /\ Writes(tree, <<>>)[1].name = Writes(tree, <<>>)[2].name
    /\ Writes(tree, <<>>)[1].value # Writes(tree, <<>>)[2].value
    /\ Lookup(var_lookup, Writes(tree, <<>>)[2].name) = Writes(tree, <<>>)[2].value

\* C13: after an evaluation that raises, the Environment, empty before,
\* binds exactly the names of the Assignment nodes whose evaluation had
\* completed, each to the value of the last completed assignment to it; an
\* assignment whose right-hand side raised binds nothing
C13_ErrorKeepsCompletedBindings ==
    (pc = "done" /\ tree # None /\ IsErr(result))
    => HoldsExactly(var_lookup, Writes(tree, <<>>))

\* the second statement of a list raised in the right-hand side of its
\* assignment: the binding of the first statement is there, alone
C13_Witness ==
    /\ pc = "done"
    /\ code = JoinStatements(<<<<"a", LeftArrow, "0", " ", "1">>, <<"b", LeftArrow, "b">>>>)
    /\ result = Raise("KeyError")
    /\ Len(var_lookup) = 1
    /\ Bound(var_lookup, "a")
    /\ ~Bound(var_lookup, "b")

----------------------------------------------------------------------------
(* Variable references *)

RECURSIVE Reads(_, _), ReadsAll(_, _)

\* the variable references evaluated while node is evaluated in the
\* Environment env, in the order they are evaluated: the name and the
\* Environment at that moment
Reads(node, env) ==
    CASE node.k = "S" -> <<>>
      [] node.k = "Var" -> << [name |-> node.token.value.v, env |-> env] >>
      [] node.k = "V" -> ReadsAll(node.children, env)
      [] node.k = "Statements" -> ReadsAll(Reverse(node.children), env)
      [] node.k = "Monad" -> Reads(node.omega, env)
      [] node.k = "Dyad" ->
            Reads(node.omega, env)
                \o (IF Raised(visit(node.omega, env)) THEN <<>>
                    ELSE Reads(node.alpha, visit(node.omega, env).env))
      [] node.k = "Assignment" -> Reads(node.value, env)

\* the variable references evaluated while the nodes are evaluated one
\* after the other, up to the first that raises
ReadsAll(nodes, env) ==
    IF Len(nodes) = 0 THEN <<>>
    ELSE Reads(Head(nodes), env)
            \o (IF Raised(visit(Head(nodes), env)) THEN <<>>
                ELSE ReadsAll(Tail(nodes), visit(Head(nodes), env).env))

\* an evaluated variable reference whose name had no binding
UnboundRead(read) == ~Bound(read.env, read.name)

----------------------------------------------------------------------------
(* The token list *)

RECURSIVE Strip(_, _)
\* the characters of a text that are neither blanks nor part of a comment,
\* a comment being the characters from the lamp up to the end of the line
Strip(text, in_comment) ==
    IF Len(text) = 0 THEN <<>>
    ELSE IF Head(text) = Newline THEN <<Newline>> \o Strip(Tail(text), FALSE)
    ELSE IF in_comment \/ Head(text) = Lamp THEN Strip(Tail(text), TRUE)
    ELSE IF Head(text) \in {" ", Tab} THEN Strip(Tail(text), FALSE)
    ELSE <<Head(text)>> \o Strip(Tail(text), FALSE)

RECURSIVE Decimal(_)
\* the decimal digits of a natural number
Decimal(n) ==
    IF n < 10 THEN DigitChars[n + 1] ELSE Decimal(n \div 10) \o DigitChars[(n % 10) + 1]

\* the text a token was read from, for the tokens of a text whose numbers
\* are written in digits alone and without a leading zero
TokenText(token) ==
    IF token.type = "INTEGER" THEN Decimal(token.value.v) ELSE token.value.v

RECURSIVE Unlex(_)
\* the texts of the tokens one after the other
Unlex(toks) == IF Len(toks) = 0 THEN "" ELSE TokenText(Head(toks)) \o Unlex(Tail(toks))

\* the numbers of the text are written in digits alone and without a
\* leading zero, so that a number token tells the text it was read from
PlainNumbers(text) ==
    /\ ~HasChar(text, HighMinus)
    /\ ~HasChar(text, ".")
    /\ ~HasChar(text, "J")
    /\ \A i \in 1..(Len(text) - 1) : text[i] = "0" => ~IsDigit(text[i + 1])

\* C15: the token list of a text that tokenizes starts with the only EOF
\* token; the tokens after it, read in order, spell the text without its
\* blanks and comments (for a text whose number tokens tell their text)
C15_EOFFirstThenReadingOrder ==
    tokens # None
    => /\ tokens.items[1] = Token("EOF", None)
       /\ \A i \in 2..Len(tokens.items) : tokens.items[i].type # "EOF"
       /\ PlainNumbers(code) => Unlex(Tail(tokens.items)) = Join(Strip(code, FALSE))

\* a text with blanks, a comment and a second line was tokenized into
\* more than two tokens
C15_Witness ==
    /\ tokens # None
    /\ PlainNumbers(code)
    /\ HasChar(code, Lamp)
    /\ HasChar(code, " ")
    /\ HasChar(code, Newline)
    /\ Len(tokens.items) > 4
    /\ tokens.items[2] # tokens.items[3]

----------------------------------------------------------------------------
(* Numeric literals *)

\* the position of the first character c of a text, 0 when there is none
Find(text, c) ==
    IF HasChar(text, c)
    THEN CHOOSE i \in 1..Len(text) : text[i] = c /\ \A j \in 1..(i - 1) : text[j] # c
    ELSE 0

\* the text before the first character c, all of it when there is none
Before(text, c) == IF HasChar(text, c) THEN SubSeq(text, 1, Find(text, c) - 1) ELSE text

\* the text after the first character c, empty when there is none
After(text, c) ==
    IF HasChar(text, c) THEN SubSeq(text, Find(text, c) + 1, Len(text)) ELSE <<>>

\* whether the text is made of digits alone
AllDigits(text) == \A i \in 1..Len(text) : IsDigit(text[i])

\* whether the real number part starts with the high minus
Negated(part) == Len(part) > 0 /\ part[1] = HighMinus

\* the real number part without its sign
Unsigned(part) == IF Negated(part) THEN Tail(part) ELSE part

\* a real number: a sign or none, digits, and a point with digits or none
IsRealText(part) ==
    /\ AllDigits(Before(Unsigned(part), "."))
    /\ AllDigits(After(Unsigned(part), "."))

\* a numeric literal: a real number, or two of them around a J
IsNumeral(text) ==
    /\ Len(text) > 0
    /\ text[1] # "J"
    /\ IsRealText(Before(text, "J"))
    /\ IsRealText(After(text, "J"))

RECURSIVE DigitsValue(_)
\* the natural number written by the digits, 0 when there is none
DigitsValue(digits) ==
    IF Len(digits) = 0 THEN 0
    ELSE 10 * DigitsValue(SubSeq(digits, 1, Len(digits) - 1))
            + Find(DigitChars, digits[Len(digits)]) - 1

\* whether the decimal part of the real number is absent or all zeros
ZeroDecimals(part) == \A i \in 1..Len(After(Unsigned(part), ".")) :
                          After(Unsigned(part), ".")[i] = "0"

\* the number a real number part writes: an integer when its decimal part
\* is absent or all zeros and a float otherwise, negated by a high minus
RealValue(part) ==
    IF ZeroDecimals(part)
    THEN PyInt(IF Negated(part) THEN 0 - DigitsValue(Before(Unsigned(part), "."))
               ELSE DigitsValue(Before(Unsigned(part), ".")))
    ELSE PyFloat(Negated(part), DigitsValue(Before(Unsigned(part), ".")),
                 StripZeros(After(Unsigned(part), ".")))

\* the token a numeric literal writes
NumeralToken(text) ==
    IF RealValue(After(text, "J")) # PyInt(0)
    THEN Token("COMPLEX", PyComplex(RealValue(Before(text, "J")), RealValue(After(text, "J"))))
    ELSE IF ZeroDecimals(Before(text, "J")) THEN Token("INTEGER", RealValue(Before(text, "J")))
    ELSE Token("FLOAT", RealValue(Before(text, "J")))

\* C16: a numeric literal is one token: an INTEGER when the decimal part
\* is absent or all zeros, and with a J whose imaginary part is zero the
\* INTEGER or FLOAT of the real part alone; a high minus negates the part
\* it precedes
C16_NumeralCollapse ==
    (tokens # None /\ IsNumeral(code))
    => tokens.items = <<Token("EOF", None), NumeralToken(code)>>

\* the literal 1.0J0.0 was tokenized to the INTEGER 1
C16_Witness ==
    /\ code = <<"1", ".", "0", "J", "0", ".", "0">>
    /\ tokens # None
    /\ tokens.items[2] = Token("INTEGER", PyInt(1))

\* the literal [high minus]1.5J[high minus]0 was tokenized to the FLOAT -1.5
C16_WitnessFloat ==
    /\ code = <<HighMinus, "1", ".", "5", "J", HighMinus, "0">>
    /\ tokens # None
    /\ tokens.items[2] = Token("FLOAT", PyFloat(TRUE, 1, <<"5">>))

----------------------------------------------------------------------------
(* Characters the tokenizer does not know *)

\* whether a token can start with the character
KnownChar(c) ==
    \/ c \in {HighMinus, "."}
    \/ c \in ID_CHARS
    \/ \E p \in WYSIWYG_MAPPING : p[1] = c

\* the positions, from 0, of the characters of a text that are neither
\* blanks, nor in a comment, nor known
UnknownAt(text) ==
    { i \in 0..(Len(text) - 1) :
        /\ ~KnownChar(text[i + 1])
        /\ text[i + 1] \notin {" ", Tab, Lamp}
        /\ \A j \in 1..i : text[j] = Lamp => \E l \in (j + 1)..i : text[l] = Newline }

\* whether a part of the message is the text x
Names(message, x) == \E i \in 1..Len(message) : message[i] = x

\* C17, the failure: a text with an unknown character does not tokenize
\* and no token list is returned
C17_UnknownCharacterRaises ==
    (pc # "tokenize" /\ UnknownAt(code) # {})
    => /\ tokens = None
       /\ pc = "done"
       /\ IsErr(result)

\* C17, the message: the error raised for a text with an unknown character
\* names that character and its position
C17_ErrorNamesCharacterAndPosition ==
    (pc # "tokenize" /\ UnknownAt(code) # {})
    => /\ IsErr(result)
       /\ \E i \in UnknownAt(code) :
             /\ Names(result.message, code[i + 1])
             /\ Names(result.message, Decimal(i))

----------------------------------------------------------------------------
(* Strands *)

\* the node of a number or a name
LeafNode(text) ==
    IF IsDigit(text) THEN S_(Token("INTEGER", PyInt(DigitsValue(<<text>>))))
    ELSE Var(Token("ID", PyStr(text)))

RECURSIVE RunTree(_)
\* the node of a run: the node of its only atom, or the V node of the
\* nodes of its atoms from the left to the right; the node of a run in
\* parentheses is the node of the run
RunTree(run) ==
    LET AtomTree(atom) == IF atom.k = "leaf" THEN LeafNode(atom.text) ELSE RunTree(atom.run)
    IN  IF Len(run) = 1 THEN AtomTree(run[1])
        ELSE V([i \in 1..Len(run) |-> AtomTree(run[i])])

\* C18: a run of array atoms parses to the node of the atom when there is
\* one, parentheses adding no node, and to one V node of the atoms' nodes
\* in source order otherwise
C18_StrandNodes ==
    (code \in StrandPrograms /\ pc \in {"interpret", "done"})
    => \A run \in Runs : code = RunText(run) => tree = Statements(<<RunTree(run)>>)

\* the run (1 a) a was parsed to a V node of two children, the first of
\* them a V node
C18_Witness ==
    /\ code = RunText(<<Paren(<<Leaf("1"), Leaf("a")>>), Leaf("a")>>)
    /\ tree # None
    /\ tree.children[1].k = "V"
    /\ tree.children[1].children[1] = V(<<LeafNode("1"), LeafNode("a")>>)
    /\ tree.children[1].children[2] = LeafNode("a")

\* the run ((1)) was parsed to the node of the number
C18_WitnessParentheses ==
    /\ code = RunText(<<Paren(<<Paren(<<Leaf("1")>>)>>)>>)
    /\ tree = Statements(<<LeafNode("1")>>)

----------------------------------------------------------------------------
(* Monadic and dyadic calls *)

\* the node of a primitive function
GlyphNode(f) == F(Token((CHOOSE p \in WYSIWYG_MAPPING : p[1] = f.glyph)[2], PyStr(f.glyph)))

\* the node of a call: a Dyad when an array stands on the left of the
\* function, and a Monad otherwise, the function on the left being called
\* on its result
CallTree(left, f, right) ==
    CASE left.k = "none" -> Monad(GlyphNode(f), RunTree(right))
      [] left.k = "array" -> Dyad(GlyphNode(f), RunTree(left.run), RunTree(right))
      [] left.k = "function" -> Monad(GlyphNode(left.f), Monad(GlyphNode(f), RunTree(right)))

\* C19: the function of a call is parsed as a dyadic call when an array
\* ends on its left and as a monadic call otherwise, also when the
\* parenthesis of a function in parentheses stands on its left
C19_DyadicIffArrayOnLeft ==
    (code \in CallPrograms /\ pc \in {"interpret", "done"})
    => \A left \in CallLefts, f \in CallFunctions, right \in CallRights :
          code = CallText(left, f, right) => tree = Statements(<<CallTree(left, f, right)>>)

\* C19 without the calls with a function in parentheses on the left
C19_ExceptAfterFunctionInParentheses ==
    (code \in CallPrograms /\ pc \in {"interpret", "done"})
    => \A left \in CallLefts, f \in CallFunctions, right \in CallRights :
          (code = CallText(left, f, right) /\ ~(left.k = "function" /\ left.f.parens))
          => tree = Statements(<<CallTree(left, f, right)>>)

----------------------------------------------------------------------------
(* Derived functions *)

\* the token of a glyph
GlyphToken(glyph) == Token((CHOOSE p \in WYSIWYG_MAPPING : p[1] = glyph)[2], PyStr(glyph))

\* whether the glyph writes a monadic, a dyadic operator
IsMonadicOperator(glyph) == GlyphToken(glyph).type \in {"COMMUTE", "DIAERESIS"}

IsDyadicOperator(glyph) == GlyphToken(glyph).type \in {"JOT", "OVER"}

RECURSIVE DerivedTree(_)
\* the node of the text of a derived function: a monadic operator at the
\* end has the whole function before it as operand; a function at the end
\* is the right operand of the dyadic operator before it, whose left
\* operand is the whole function before the operator
DerivedTree(text) ==
    IF IsMonadicOperator(text[Len(text)])
    THEN MOp(GlyphToken(text[Len(text)]), DerivedTree(SubSeq(text, 1, Len(text) - 1)))
    ELSE IF Len(text) > 1 /\ IsDyadicOperator(text[Len(text) - 1])
    THEN DOp(GlyphToken(text[Len(text) - 1]), DerivedTree(SubSeq(text, 1, Len(text) - 2)),
             F(GlyphToken(text[Len(text)])))
    ELSE F(GlyphToken(text[Len(text)]))

\* C20: in a derived function a monadic operator has the whole function on
\* its left as operand, and a dyadic operator has the one function on its
\* right as right operand and the whole function on its left as left
\* operand
C20_OperatorOperands ==
    (code \in OperatorPrograms /\ pc \in {"interpret", "done"})
    => tree = Statements(<<Monad(DerivedTree(Before(code, " ")),
                                 RunTree(<<Leaf("1"), Leaf("a")>>))>>)

\* +[jot][left shoe][commute] was parsed as the commute of the jot of + and
\* left shoe
C20_Witness ==
    /\ code = <<"+", Jot, LeftShoe, TildeDiaeresis, " ", "1", " ", "a">>
    /\ tree # None
    /\ tree.children[1].function
          = MOp(GlyphToken(TildeDiaeresis),
                DOp(GlyphToken(Jot), F(GlyphToken("+")), F(GlyphToken(LeftShoe))))

\* +[jot][left shoe][jot]+ was parsed as the jot of (the jot of + and left
\* shoe) and +
C20_WitnessChain ==
    /\ code = <<"+", Jot, LeftShoe, Jot, "+", " ", "1", " ", "a">>
    /\ tree # None
    /\ tree.children[1].function
          = DOp(GlyphToken(Jot),
                DOp(GlyphToken(Jot), F(GlyphToken("+")), F(GlyphToken(LeftShoe))),
                F(GlyphToken("+")))

----------------------------------------------------------------------------
(* Parse failures *)

\* the types of the tokens
TokenTypes ==
    {p[2] : p \in WYSIWYG_MAPPING} \cup {"INTEGER", "FLOAT", "COMPLEX", "ID", "EOF"}

\* whether the message names an expected token type and the type of one of
\* the tokens as the actual one
NamesExpectedAndActual(message, toks) ==
    \E expected \in TokenTypes, i \in 1..Len(toks) :
        message = <<"Parser: ">> \o Expected(expected, toks[i].type)

\* whether parsing the tokens of the text failed
ParseFailed == pc = "done" /\ tokens # None /\ tree = None

\* C21: a parse failure is an error whose message names the expected and
\* the actual token type, also when an array is expected and another
\* token is found
C21_ErrorNamesExpectedAndActual ==
    ParseFailed => IsErr(result) /\ NamesExpectedAndActual(result.message, tokens.items)

\* C21 without the failures of parse_vector: the message names the
\* expected and the actual token type unless no array was found where one
\* is expected
C21_ExceptWhereArrayExpected ==
    ParseFailed
    => /\ IsErr(result)
       /\ \/ NamesExpectedAndActual(result.message, tokens.items)
          \/ result.message = <<"Parser: ", "Failed to parse scalars inside a vector.">>

----------------------------------------------------------------------------
(* The each operator *)

\* the operands of diaeresis in the runs of the derived function
EachOperands == {"right_tack", "left_tack", "without", "plus"}

InitEach == InitArgs(PervadeArgs \cup {None}, PervadeArgs)

\* diaeresis(aalpha=f)(alpha=alpha, omega=omega) for a primitive f
Each ==
    /\ CanCall
    /\ \E f \in EachOperands :
         \E r \in {Apply(diaeresis(Primitive(f)), alpha, omega)} : Return(f, r)

NextEach == Each

SpecEach == InitEach /\ [][NextEach]_vars

\* whether both arguments have a non-empty shape
BothShaped == alpha.shape # <<>> /\ omega.shape # <<>>

\* the i-th element of an argument: a scalar argument is reused
EachArg(x, i) == IF x.shape # <<>> THEN x.data.items[i] ELSE x

\* the shape of the argument that has one
ShapedShape == IF alpha.shape # <<>> THEN alpha.shape ELSE omega.shape

\* the operand applied to the corresponding elements of the arguments
Corresponding ==
    [i \in 1..Prod(ShapedShape) |-> Function(fn, EachArg(alpha, i), EachArg(omega, i))]

\* the dyadic call of the derived function returned: ValueError for
\* different ranks, an error of the given kind for equal ranks and
\* different shapes, otherwise the operand's results on corresponding
\* elements in the shaped argument's shape (an error when the operand
\* raised one)
EachReturned(kind) ==
    (pc = "return" /\ alpha # None)
    => IF BothShaped /\ Len(alpha.shape) # Len(omega.shape)
       THEN result = Raise("ValueError")
       ELSE IF BothShaped /\ alpha.shape # omega.shape
       THEN result = Raise(kind)
       ELSE IF alpha.shape = <<>> /\ omega.shape = <<>> THEN TRUE
       ELSE IF \E i \in DOMAIN Corresponding : IsErr(Corresponding[i])
       THEN IsErr(result)
       ELSE result = APLArray(ShapedShape, PyList(Corresponding))

C22_WitnessRanks ==
    /\ pc = "return"
    /\ alpha # None
    /\ Len(alpha.shape) = 1
    /\ Len(omega.shape) = 2
    /\ result = Raise("ValueError")

\* a scalar and a vector were given to f-each
C22_WitnessScalar ==
    /\ pc = "return"
    /\ alpha # None
    /\ alpha.shape = <<>>
    /\ Len(omega.shape) = 1
    /\ IsAPLArray(result)
    /\ result.shape = omega.shape
    /\ Len(result.data.items) = 2

----------------------------------------------------------------------------
(* The Boolean functions *)

\* the functions decorated with @boolean_function
BooleanFuncs == {"and_", "nand", "or_", "nor"}

\* a simple scalar, or an array of any rank whose elements are simple
\* scalars
ArrayOfLeaves(x) ==
    /\ IsAPLArray(x)
    /\ IsList(x.data)
    /\ IF x.shape = <<>>
       THEN Len(x.data.items) = 1 /\ IsInt(x.data.items[1])
       ELSE \A i \in 1..Len(x.data.items) :
               /\ WellFormedSimple(x.data.items[i])
               /\ IsInt(x.data.items[i].data.items[1])

\* the leaves of a simple array, in order
LeavesOf(x) ==
    IF x.shape = <<>> THEN <<x.data.items[1].v>>
    ELSE [i \in 1..Len(x.data.items) |-> x.data.items[i].data.items[1].v]

\* one argument is a scalar, or the shapes are equal
Conformable(a, w) == a.shape = <<>> \/ w.shape = <<>> \/ a.shape = w.shape

\* the i-th leaf of a simple array, a scalar's leaf for every i
LeafAt(x, i) == IF x.shape = <<>> THEN LeavesOf(x)[1] ELSE LeavesOf(x)[i]

\* the number of pairs of leaves of two conformable simple arrays
PairCount(a, w) ==
    IF a.shape # <<>> THEN Len(LeavesOf(a))
    ELSE IF w.shape # <<>> THEN Len(LeavesOf(w))
    ELSE 1

\* the truth tables of the Boolean functions on 0 and 1
TruthTable(f, x, y) ==
    CASE f = "and_" -> (IF x = 1 /\ y = 1 THEN 1 ELSE 0)
      [] f = "or_"  -> (IF x = 1 \/ y = 1 THEN 1 ELSE 0)
      [] f = "nand" -> (IF x = 1 /\ y = 1 THEN 0 ELSE 1)
      [] f = "nor"  -> (IF x = 1 \/ y = 1 THEN 0 ELSE 1)

\* the array of the truth-table values of the pairs of leaves
TruthTableArray(f, a, w) ==
    IF a.shape = <<>> /\ w.shape = <<>>
    THEN S(PyInt(TruthTable(f, LeafAt(a, 1), LeafAt(w, 1))))
    ELSE
    APLArray(IF a.shape # <<>> THEN a.shape ELSE w.shape,
             PyList([i \in 1..PairCount(a, w) |->
                        S(PyInt(TruthTable(f, LeafAt(a, i), LeafAt(w, i))))]))

\* a dyadic call of a Boolean function on two simple arrays returned
BooleanReturned ==
    /\ pc = "return"
    /\ fn \in BooleanFuncs
    /\ alpha # None
    /\ ArrayOfLeaves(alpha)
    /\ ArrayOfLeaves(omega)

C23_WitnessTruthTable ==
    /\ BooleanReturned
    /\ fn = "nor"
    /\ alpha = IntVec(<<0, 1>>)
    /\ omega = IntVec(<<0, 0>>)
    /\ result = IntVec(<<1, 0>>)

----------------------------------------------------------------------------
(* The index generator *)

\* the floats 1.5 and -0.5
OneAndHalf == PyFloat(FALSE, 1, <<"5">>)

MinusHalf == PyFloat(TRUE, 0, <<"5">>)

\* the dimensions given to the index generator: integers from -1 to MaxDim
\* and two floats
IotaLeaves == {PyInt(d) : d \in Dims} \cup {OneAndHalf, MinusHalf}

\* the arguments of the index generator: scalars, vectors of at most two
\* dimensions, an enclosed scalar and a matrix
IotaArgs ==
    {S(x) : x \in IotaLeaves}
    \cup {Vec(xs) : xs \in SeqsUpTo({S(x) : x \in IotaLeaves}, 2)}
    \cup { S(Sc(2)), APLArray(<<1, 2>>, PyList(<<Sc(1), Sc(2)>>)) }

InitIota == InitArgs({None, Sc(0)}, IotaArgs)

IndexGenerator ==
    /\ CanCall
    /\ Return("iota", iota(alpha, omega))

NextIota == IndexGenerator

SpecIota == InitIota /\ [][NextIota]_vars

\* the numbers an array holds: the content of a simple scalar, the
\* contents of the elements of a vector of simple scalars
NumbersOf(x) ==
    IF x.shape = <<>> THEN <<x.data.items[1]>>
    ELSE [i \in 1..Len(x.data.items) |-> x.data.items[i].data.items[1]]

\* a simple scalar or a vector of simple scalars
ScalarOrVectorOfNumbers(x) ==
    /\ Len(x.shape) <= 1
    /\ \A i \in 1..Len(x.data.items) :
          IF x.shape = <<>> THEN ~IsAPLArray(x.data.items[i])
          ELSE is_simple_scalar(x.data.items[i])

\* the monadic index generator returned for the dimensions of omega:
\* TypeError for a dimension that is no integer, ValueError for a negative
\* one, and the vector 0, 1, ..., n-1 for a scalar n >= 0
IotaReturned ==
    LET dims == NumbersOf(omega)
    IN  IF \E i \in 1..Len(dims) : ~IsInt(dims[i]) THEN result = Raise("TypeError")
        ELSE IF \E i \in 1..Len(dims) : dims[i].v < 0 THEN result = Raise("ValueError")
        ELSE omega.shape = <<>> => result = Vec([i \in 1..dims[1].v |-> Sc(i - 1)])

\* C24: the monadic index generator raises TypeError for a dimension that
\* is no integer and ValueError for a negative dimension, for a scalar and
\* for a vector argument, and returns the vector 0, 1, ..., n-1 for a
\* scalar n >= 0
C24_ErrorsAndIndices ==
    (pc = "return" /\ alpha = None /\ ScalarOrVectorOfNumbers(omega)) => IotaReturned

\* C24 without the scalars that hold no integer
C24_ExceptNonIntegerScalar ==
    (/\ pc = "return" /\ alpha = None /\ ScalarOrVectorOfNumbers(omega)
     /\ ~(omega.shape = <<>> /\ ~IsInt(omega.data.items[1])))
    => IotaReturned

\* a scalar that holds no integer makes the index generator raise
\* AttributeError
C24_NonIntegerScalarRaisesAttributeError ==
    (/\ pc = "return" /\ alpha = None /\ ScalarOrVectorOfNumbers(omega)
     /\ omega.shape = <<>> /\ ~IsInt(omega.data.items[1]))
    => result = Raise("AttributeError")

----------------------------------------------------------------------------
(* Ceiling and floor *)

\* the leaves given to ceiling and floor: integers, floats and complex
\* numbers
RoundLeaves ==
    { PyInt(-1), PyInt(0), PyInt(2),
      OneAndHalf, MinusHalf, PyFloat(TRUE, 1, <<"5">>), PyFloat(FALSE, 0, <<"2", "5">>),
      PyComplex(PyInt(0), PyInt(1)), PyComplex(OneAndHalf, PyInt(-1)) }

RoundScalars == {S(x) : x \in RoundLeaves}

RoundArgs == RoundScalars \cup {Vec(xs) : xs \in SeqsUpTo(RoundScalars, MaxLen)}

InitRound == InitArgs(RoundScalars \cup {None}, RoundArgs)

Ceiling ==
    /\ CanCall
    /\ Return("ceiling", CallPervasive("ceiling", alpha, omega))

Floor ==
    /\ CanCall
    /\ Return("floor", CallPervasive("floor", alpha, omega))

NextRound == Ceiling \/ Floor

SpecRound == InitRound /\ [][NextRound]_vars

\* n is the least integer not below the real number x
LeastIntegerNotBelow(n, x) ==
    /\ Scaled(PyInt(n), Decimals(x)) >= Scaled(x, Decimals(x))
    /\ Scaled(PyInt(n - 1), Decimals(x)) < Scaled(x, Decimals(x))

\* n is the greatest integer not above the real number x
GreatestIntegerNotAbove(n, x) ==
    /\ Scaled(PyInt(n), Decimals(x)) <= Scaled(x, Decimals(x))
    /\ Scaled(PyInt(n + 1), Decimals(x)) > Scaled(x, Decimals(x))

\* the result has the shape of omega and holds at every leaf the integer
\* that ceiling or floor assigns to the leaf of omega
Rounded ==
    /\ IsAPLArray(result)
    /\ result.shape = omega.shape
    /\ Len(result.data.items) = Len(omega.data.items)
    /\ \A i \in 1..Len(NumbersOf(omega)) :
          /\ omega.shape # <<>> => is_simple_scalar(result.data.items[i])
          /\ IsInt(NumbersOf(result)[i])
          /\ IF fn = "ceiling"
             THEN LeastIntegerNotBelow(NumbersOf(result)[i].v, NumbersOf(omega)[i])
             ELSE GreatestIntegerNotAbove(NumbersOf(result)[i].v, NumbersOf(omega)[i])

\* a monadic call of ceiling or floor returned
RoundReturned == pc = "return" /\ alpha = None

\* C25: monadic ceiling and floor raise NotImplementedError on a complex
\* leaf, and return the least integer not below and the greatest integer
\* not above a real leaf
C25_ComplexRaisesNotImplementedError ==
    RoundReturned
    => IF \E i \in 1..Len(NumbersOf(omega)) : IsComplex(NumbersOf(omega)[i])
       THEN result = Raise("NotImplementedError")
       ELSE Rounded

\* C25 for real leaves alone
C25_RealLeaves ==
    (RoundReturned /\ \A i \in 1..Len(NumbersOf(omega)) : ~IsComplex(NumbersOf(omega)[i]))
    => Rounded

----------------------------------------------------------------------------
(* The cells of an array *)

\* the arrays whose cells are taken: the arguments of without and
\* enclose, arrays of rank 3 and arrays with a dimension 0
CellArgs ==
    StructArgs
    \cup { APLArray(<<2, 1, 2>>, PyList(<<Sc(0), Sc(1), Sc(2), Sc(3)>>)),
           APLArray(<<1, 2, 2>>, PyList(<<Sc(0), Sc(1), IntVec(<<1, 2>>), Sc(3)>>)),
           APLArray(<<0, 2>>, PyList(<<>>)),
           APLArray(<<2, 0>>, PyList(<<>>)) }

\* in the runs of n_cells, omega is the array and alpha holds the
\* argument n, from 0 to one more than the largest rank
InitCells == InitArgs({PyInt(n) : n \in 0..4}, CellArgs)

\* omega.n_cells(n)
NCells ==
    /\ CanCall
    /\ Return("n_cells", n_cells(omega, alpha.v))

NextCells == NCells

SpecCells == InitCells /\ [][NextCells]_vars

RECURSIVE ConcatData(_)
\* the data of the arrays of a sequence, concatenated in order
ConcatData(cells) ==
    IF Len(cells) = 0 THEN <<>> ELSE Head(cells).data.items \o ConcatData(Tail(cells))

\* n_cells(n) returned for an array of rank r: an error of the given kind
\* for n > r, and for 0 <= n <= r an array of rank r - n, the array
\* itself for n = 0, whose cells concatenated in order are the data
CellsReturned(kind) ==
    pc = "return"
    => IF alpha.v > Len(omega.shape) THEN result = Raise(kind)
       ELSE /\ IsAPLArray(result)
            /\ Len(result.shape) = Len(omega.shape) - alpha.v
            /\ IF alpha.v = 0 THEN result = omega
               ELSE ConcatData(result.data.items) = omega.data.items

C26_WitnessCells ==
    /\ pc = "return"
    /\ alpha.v = 1
    /\ omega.shape = <<2, 1, 2>>
    /\ IsAPLArray(result)
    /\ result.shape = <<2, 1>>
    /\ result.data.items[2] = IntVec(<<2, 3>>)

----------------------------------------------------------------------------
(* The arguments after a call.  The statements of functions.py that write  *)
(* a list in place are newdata.append and newdata += in _without and the    *)
(* slice assignment to result_data in encode; the lists of a call are the   *)
(* data of alpha, the data of omega and the list such a statement writes.   *)
(* (_encode appends to a list bs it makes on every call and returns a       *)
(* reversed copy of it, which encode_helper gives.)                         *)

\* a variant of _without that accumulates in the data of alpha
newdata_IsAlphaData == "alpha_data"

\* newdata = []: the list the loop of _without writes is a new list
newdata == "newdata"

\* a variant of encode that fills the data of omega
result_data_IsOmegaData == "omega_data"

\* result_data = [0]*math.prod(result_shape): the list the loops of encode
\* write is a new list
result_data == "result_data"

\* the lists at the start of a call
ArgLists(a, w) ==
    [ alpha_data |-> IF a = None THEN <<>> ELSE a.data.items,
      omega_data |-> w.data.items,
      newdata |-> <<>>,
      result_data |-> <<>> ]

\* the lists after _without(alpha=a, omega=w): every kept major cell was
\* appended to newdata; an exception is raised before the loop
WithoutWrites(a, w) ==
    IF IsErr(without_dyadic(a, w)) THEN ArgLists(a, w)
    ELSE LET lists == ArgLists(a, w)
             majors == major_cells(a).data.items
             haystack == Haystack(w, Len(a.shape) - 1).items
         IN  [lists EXCEPT ![newdata] = WithoutLoop(majors, haystack, lists[newdata], 0)[1]]

\* the lists after encode(alpha=a, omega=w): result_data was made and
\* every encoding assigned to a slice of it; the list of a call that
\* raises is lost
EncodeWrites(a, w) ==
    IF IsErr(encode(a, w)) THEN ArgLists(a, w)
    ELSE LET a1 == at_least_vector(a)
             result_shape == a.shape \o w.shape
             lists == [ArgLists(a, w) EXCEPT
                          ![result_data] = [q \in 1..Prod(result_shape) |-> PyInt(0)]]
         IN  [lists EXCEPT ![result_data] =
                 EncodeLoop(0, 0, a1, w, Prod(Slice(a1.shape, 1, Len(a1.shape))),
                            EncodeStride(result_shape), lists[result_data]).items]

\* the lists after the call of a primitive; no other function of
\* functions.py holds a statement that writes a list
ListsAfter(f, a, w) ==
    IF f = "without" /\ a # None THEN WithoutWrites(a, w)
    ELSE IF f = "encode" /\ a # None THEN EncodeWrites(a, w)
    ELSE ArgLists(a, w)

\* an argument with the data its list holds after the call
ArgAfter(x, data) == IF x = None THEN None ELSE APLArray(x.shape, PyList(data))

\* the Environment in which the arguments are the values of two names
ArgsBound(a, w) == Bind(IF a = None THEN <<>> ELSE Bind(<<>>, "a", a), "w", w)

\* the arguments of the calls: scalars, flat and nested vectors, matrices
FrameArgs ==
    SimpleScalars \cup NestedArrays
    \cup { IntVec(<<>>), IntVec(<<2, 3>>), IntVec(<<1, 4>>), IntVec(<<3, 1, 4>>),
           APLArray(<<3, 2>>, PyList(<<Sc(0), Sc(1), Sc(2), Sc(3), Sc(4), Sc(5)>>)) }

InitFrame ==
    /\ pc = "call"
    /\ fn = ""
    /\ alpha \in FrameArgs \cup {None}
    /\ omega \in FrameArgs
    /\ alpha0 = alpha
    /\ omega0 = omega
    /\ calls = <<>>
    /\ result = None
    /\ code = <<>>
    /\ tokens = None
    /\ tree = None
    /\ var_lookup = ArgsBound(alpha, omega)

\* the call named name of the function f returned r and left the
\* arguments a and w, which are the values bound in the Environment
FrameReturn(f, name, r, a, w) ==
    /\ fn' = f
    /\ calls' = Append(calls, name)
    /\ result' = r
    /\ pc' = "return"
    /\ alpha' = a
    /\ omega' = w
    /\ var_lookup' = ArgsBound(a, w)
    /\ UNCHANGED <<alpha0, omega0, code, tokens, tree>>

\* f(alpha=alpha, omega=omega) for a primitive f
CallPrimitive ==
    /\ CanCall
    /\ \E f \in Primitives :
         \E lists \in {ListsAfter(f, alpha, omega)} :
            FrameReturn(f, f, Function(f, alpha, omega),
                        ArgAfter(alpha, lists.alpha_data), ArgAfter(omega, lists.omega_data))

\* commute(aalpha=f)(alpha=alpha, omega=omega): f is called with omega as
\* its alpha and with alpha, or omega again, as its omega
CallCommuted ==
    /\ CanCall
    /\ \E f \in Primitives :
         \E lists \in {ListsAfter(f, omega, IF alpha = None THEN omega ELSE alpha)} :
            FrameReturn(f, "commute", Apply(commute(Primitive(f)), alpha, omega),
                        ArgAfter(alpha, lists.omega_data),
                        ArgAfter(omega, IF alpha = None /\ lists.alpha_data = omega.data.items
                                        THEN lists.omega_data ELSE lists.alpha_data))

NextFrame == CallPrimitive \/ CallCommuted

SpecFrame == InitFrame /\ [][NextFrame]_vars

\* C27: after a call of a primitive function or of a derived function,
\* the arguments and the values bound in the Environment are equal to
\* what they were before the call
C27_ArgumentsUnchanged ==
    pc = "return"
    => /\ alpha = alpha0
       /\ omega = omega0
       /\ var_lookup = ArgsBound(alpha0, omega0)

\* without kept major cells of alpha in newdata
C27_Witness ==
    /\ pc = "return"
    /\ fn = "without"
    /\ alpha0 = IntVec(<<3, 1, 4>>)
    /\ omega0 = IntVec(<<1, 4>>)
    /\ result = IntVec(<<3>>)
    /\ alpha = alpha0
    /\ Lookup(var_lookup, "a") = alpha0

\* encode wrote the encodings into result_data
C27_WitnessEncode ==
    /\ pc = "return"
    /\ fn = "encode"
    /\ calls = <<"encode">>
    /\ alpha0 = IntVec(<<2, 3>>)
    /\ omega0 = Sc(2)
    /\ result = IntVec(<<0, 2>>)
    /\ omega = omega0

\* the right tack returned its argument
C27_WitnessShared ==
    /\ pc = "return"
    /\ fn = "right_tack"
    /\ omega0 \in NestedArrays
    /\ result = omega0
    /\ omega = omega0

----------------------------------------------------------------------------
(* Pervasion into enclosed scalars *)

\* an array of empty shape whose element is an array
IsEnclosedScalar(x) ==
    /\ IsAPLArray(x)
    /\ x.shape = <<>>
    /\ IsList(x.data)
    /\ Len(x.data.items) = 1
    /\ IsAPLArray(x.data.items[1])

\* a dyadic call of a pervasive function returned for two arguments of
\* empty shape, one of them at least an enclosed scalar, and the function
\* raises nothing on the unwrapped arguments
EnclosedReturned ==
    /\ pc = "return"
    /\ fn \in PervasiveFuncs
    /\ alpha # None
    /\ alpha.shape = <<>>
    /\ omega.shape = <<>>
    /\ IsEnclosedScalar(alpha) \/ IsEnclosedScalar(omega)
    /\ ~IsErr(pervasive_func(fn, Unwrap(alpha), Unwrap(omega)))

\* C28: a pervasive dyadic function called with two arguments of empty
\* shape, one of them at least an enclosed scalar, returns an array of empty
\* shape that holds exactly one element, the result of the function on the
\* unwrapped arguments
C28_HoldsOneElement ==
    EnclosedReturned
    => result = APLArray(<<>>, PyList(<<pervasive_func(fn, Unwrap(alpha), Unwrap(omega))>>))

\* what the call returns: an array of empty shape whose data is the result
\* on the unwrapped arguments itself, no list
C28_DataIsTheResult ==
    EnclosedReturned
    => result = APLArray(<<>>, pervasive_func(fn, Unwrap(alpha), Unwrap(omega)))

----------------------------------------------------------------------------
(* Assignments in a strand *)

\* the program evaluated is one strand whose elements are assignments of
\* literals
StrandOfAssignments ==
    /\ pc = "done"
    /\ tree # None
    /\ ~IsErr(result)
    /\ Len(tree.children) = 1
    /\ tree.children[1].k = "V"
    /\ \A i \in 1..Len(tree.children[1].children) :
          /\ tree.children[1].children[i].k = "Assignment"
          /\ tree.children[1].children[i].value.k = "S"

\* the name and the value of the i-th element of the strand, from the left
StrandName(i) == tree.children[1].children[i].varname.token.value.v

StrandValue(i) == APLArray(<<>>, tree.children[1].children[i].value.token.value)

\* C29: the elements of a strand are evaluated from right to left, so a
\* name that several elements assign is left bound to the value of the
\* leftmost of them, as a is to 1 by (a<-1) (a<-2)
C29_LeftmostBindingStays ==
    StrandOfAssignments
    => \A i \in 1..Len(tree.children[1].children) :
          (\A j \in 1..(i - 1) : StrandName(j) # StrandName(i))
          => Lookup(var_lookup, StrandName(i)) = StrandValue(i)

\* the elements of a strand are evaluated from left to right: a name that
\* several elements assign is left bound to the value of the rightmost
C29_RightmostBindingStays ==
    StrandOfAssignments
    => \A i \in 1..Len(tree.children[1].children) :
          (\A j \in (i + 1)..Len(tree.children[1].children) : StrandName(j) # StrandName(i))
          => Lookup(var_lookup, StrandName(i)) = StrandValue(i)

----------------------------------------------------------------------------
(* Dyadic functions called monadically *)

\* the functions decorated with @dyadic
DyadicOnly == BooleanFuncs \cup {"decode", "encode"}

\* a primitive was called with no left argument
MonadicReturned == pc = "return" /\ alpha = None /\ calls = <<fn>>

\* C30: a function that is dyadic only (and, or, nand, nor, decode, encode)
\* called with no left argument raises SyntaxError, before any check of the
\* types of the arguments, whatever the right argument
C30_MonadicCallRaisesSyntaxError ==
    (MonadicReturned /\ fn \in DyadicOnly) => result = Raise("SyntaxError")

\* C30 for decode and encode alone
C30_DecodeEncode ==
    (MonadicReturned /\ fn \in {"decode", "encode"}) => result = Raise("SyntaxError")

\* a Boolean function called with no left argument raises TypeError at
\* the first leaf of the right argument, and nothing when there is none
C30_BooleanRaisesTypeError ==
    (MonadicReturned /\ fn \in BooleanFuncs)
    => \/ result = Raise("TypeError")
       \/ IsAPLArray(result) /\ omega.shape # <<>>

====
